---- MODULE Spec2Model ----
(***************************************************************************)
(* State-machine model of the bandwidth monitor: the agent's peer-traffic  *)
(* pipeline (agent.py) and the collector's ingestion, alert engine,        *)
(* liveness scanner, retention cleanup and topology query                  *)
(* (simple_ui_collector.py).                                               *)
(***************************************************************************)
EXTENDS Integers, Sequences, FiniteSets, TLC

\* ------------------------------------------------------------------------
\* Agent: shared state of the sniffer, peer refresh and reporting threads
\* ------------------------------------------------------------------------
VARIABLES
    current_peer_ips,   \* agent.py: known-peer set
    peer_ip_lock,       \* holder of peer_ip_lock, or "free"
    peer_byte_counts,   \* agent.py: defaultdict(int), 0 = key absent
    peer_data_lock,     \* holder of peer_data_lock, or "free"
    h_pc,               \* packet_handler position
    h_pkt,              \* packet being handled
    h_tmp,              \* value read by the += in packet_handler
    r_pc,               \* reporting loop position
    r_copy,             \* current_peer_counts of the running tick
    classified,         \* history: bytes classified as peer traffic, per flow
    drained,            \* history: bytes returned by completed drains, per flow
    n_packets           \* history: packets delivered to the handler

\* the agent's threads and the locals of the reporting loop that outlive a tick
VARIABLES
    stop_event,           \* agent.py: threading.Event, TRUE once set
    NPCAP_AVAILABLE,      \* agent.py: the capture library was imported
    s_pc,                 \* start_sniffer thread position
    f_pc,                 \* refresh_peer_ips_periodically position
    p_pc,                 \* ping_targets_periodically position
    poll_result,          \* outcome of the last get_peer_ips_from_collector call
    latest_ping_results,  \* agent.py: target -> status of the last probe round
    last_report_time,     \* reporting loop, tenths of a second
    last_net_counters,    \* reporting loop: previous psutil.net_io_counters, or Null for {}
    last_disk_counters,   \* reporting loop: previous psutil.disk_io_counters, or Null for {}
    r_current_time,       \* reporting loop: current_time of the running tick
    r_time_delta,         \* reporting loop: time_delta of the running tick
    r_payload,            \* reporting loop: the payload assembled last
    send_result,          \* reporting loop: how the last requests.post ended
    posted,               \* history: bytes handed to the transport, per flow
    n_posts               \* history: calls of requests.post

\* the probe thread and its lock
VARIABLES
    collector_ip,         \* __main__: the address typed in at startup
    ping_results_lock,    \* holder of ping_results_lock, or "free"
    targets_to_ping,      \* ping_targets_periodically: targets of the running round not yet probed
    results_this_round,   \* ping_targets_periodically: results of the running round
    probed,               \* history: targets handed to execute_ping in the running round
    n_rounds              \* history: probe rounds started

pingVars == <<collector_ip, ping_results_lock, targets_to_ping, results_this_round, probed, n_rounds>>

loopVars == <<stop_event, NPCAP_AVAILABLE, s_pc, f_pc, p_pc, poll_result, latest_ping_results,
              last_report_time, last_net_counters, last_disk_counters, r_current_time,
              r_time_delta, r_payload, send_result, posted, n_posts>>

agentVars == <<current_peer_ips, peer_ip_lock, peer_byte_counts, peer_data_lock,
               h_pc, h_pkt, h_tmp, r_pc, r_copy, classified, drained, n_packets, loopVars,
               pingVars>>

\* ------------------------------------------------------------------------
\* Collector: durable tables, in-memory snapshot and the running handlers
\* ------------------------------------------------------------------------
VARIABLES
    now,                    \* wall clock of the collector host, seconds
    n_ticks,                \* clock advances so far
    agents,                 \* table agents, rows in rowid order
    metrics,                \* table metrics, a set of rows with their id
    next_metric_id,         \* AUTOINCREMENT of metrics.id
    alerts,                 \* table alerts, rows in rowid order
    latest_agent_snapshot,  \* hostname -> {last_seen, latest_metrics}
    req,                    \* per request thread: position and locals of receive_agent_data
    n_reports,              \* reports received so far
    scan,                   \* check_agent_down_status: position and locals
    cleanup,                \* cleanup_old_metrics: position and locals
    graph,                  \* last answer of /api/all_peer_flows
    resp,                   \* per request thread: status returned and error logged, 0 while running
    interrupted             \* KeyboardInterrupt reached app.run: the collector is shutting down

collVars == <<now, n_ticks, agents, metrics, next_metric_id, alerts, latest_agent_snapshot,
              req, n_reports, scan, cleanup, graph, resp, interrupted>>

vars == <<agentVars, collVars>>

\* ------------------------------------------------------------------------
\* Helpers
\* ------------------------------------------------------------------------
\* Python None / SQL NULL for a number; Some(v) for a value
Null == <<>>
Some(v) == <<v>>
Val(x) == x[1]

\* names are sequences of text fragments, so that formatting acts on them
H1 == <<"h1">>
H2 == <<"h2">>
WellFormedIPs == {"10.0.0.1", "10.0.0.2", "10.0.0.9"}

RECURSIVE FoldLeft(_, _, _)
\* for x in seq: acc = Op(acc, x)
FoldLeft(Op(_, _), acc, seq) ==
    IF seq = <<>> THEN acc ELSE FoldLeft(Op, Op(acc, Head(seq)), Tail(seq))

Max2(a, b) == IF a >= b THEN a ELSE b

IPs == {"10.0.0.1", "10.0.0.2", "10.0.0.9"}
\* get_local_ip() of the agent's host and the collector address typed in at startup
AGENT_IP == "10.0.0.1"
COLLECTOR_IP == "10.0.0.9"
PacketSizes == {60, 1500}
\* well-formed peer lists the collector may answer with
PeerResponses == {{}, {"10.0.0.1", "10.0.0.2"}}
MaxPackets == 3

FlowKeys == IPs \X IPs
NoPacket == [src |-> "none", dst |-> "none", size |-> 0]
ZeroCounts == [k \in FlowKeys |-> 0]

\* ------------------------------------------------------------------------
\* Reporting loop: counters, rates and the payload. Times are in tenths of a
\* second, Mbps and per-second rates in hundredths, peer Mbps in thousandths.
\* ------------------------------------------------------------------------
REPORT_INTERVAL_SECONDS == 20
\* if time_delta < 0.1: continue
MIN_TIME_DELTA == 1
\* the last instant at which a tick may start
MaxClock == 40

\* round(n / d, places) with n and d already scaled to the unit of the result
round_div(n, d) == (2 * n + d) \div (2 * d)

counter_delta_Raw(current, last) == current - last

\* max(0, current_counts.x - last_counts.x)
counter_delta(current, last) == Max2(0, current - last)

NicNames == <<"eth0", "eth1">>
NicCounters(bytes_sent, bytes_recv, isup, speed) ==
    [bytes_sent |-> bytes_sent, bytes_recv |-> bytes_recv, isup |-> isup, speed |-> speed]
DiskCounters(read_bytes, write_bytes, read_count, write_count) ==
    [read_bytes |-> read_bytes, write_bytes |-> write_bytes,
     read_count |-> read_count, write_count |-> write_count]

DiskNames == {"sda", "sdb"}

\* counters read before the loop starts, per interface and per disk
NetBoot == [eth0 |-> NicCounters(1048576, 1048576, TRUE, 1000),
            eth1 |-> NicCounters(524288, 524288, TRUE, 0)]
DiskBoot == "sda" :> DiskCounters(102400, 102400, 100, 100)

\* psutil.net_io_counters / net_if_stats readings: counters that grow, counters
\* that restart below the previous value, an interface that is down, and Null
\* for a reading that raised
NetReadings ==
    {Some(NetBoot),
     Some([eth0 |-> NicCounters(2097152, 3145728, TRUE, 1000),
           eth1 |-> NicCounters(524288, 1048576, TRUE, 0)]),
     Some([eth0 |-> NicCounters(0, 3145728, TRUE, 1000),
           eth1 |-> NicCounters(262144, 0, FALSE, 0)]),
     Null}

\* psutil.disk_io_counters readings of one disk, growing or restarting
DiskReadings ==
    {Some(DiskBoot), Some("sda" :> DiskCounters(307200, 102400, 300, 100)),
     Some("sda" :> DiskCounters(4096, 204800, 10, 50)), Null}

\* readings in which an interface or a disk is missing or has appeared
PartialNetReadings ==
    {Some([eth0 |-> NicCounters(1048576, 1048576, TRUE, 1000)]),
     Some([eth0 |-> NicCounters(2097152, 3145728, TRUE, 1000),
           eth1 |-> NicCounters(524288, 1048576, TRUE, 0)]),
     Null}
PartialDiskReadings ==
    {Some(DiskBoot),
     Some("sda" :> DiskCounters(307200, 102400, 300, 100)
          @@ "sdb" :> DiskCounters(4096, 204800, 10, 50)),
     Null}

\* the interfaces and disks that have a current and a previous sample
nics_with_previous(cur, prev) ==
    {i \in DOMAIN NicNames : NicNames[i] \in DOMAIN cur /\ NicNames[i] \in DOMAIN prev}
disks_with_previous(cur, prev) == {disk \in DiskNames : disk \in DOMAIN cur /\ disk \in DOMAIN prev}

previous_sample_Current(last, current) == current

\* last_counts = last_net_counters[nic], last_counts = last_disk_counters[disk]
previous_sample(last, current) == last

\* sum over the interfaces that have a previous sample and are up of the clamped
\* delta of one counter
total_delta(current, last, field) ==
    FoldLeft(LAMBDA acc, nic :
                 IF nic \in DOMAIN current /\ nic \in DOMAIN last /\ current[nic].isup
                 THEN acc + counter_delta(current[nic][field], last[nic][field])
                 ELSE acc,
             0, NicNames)

\* round(bps * 8 / (1024*1024), 2) with bps = delta / time_delta, in hundredths:
\* delta * 10 * 8 * 100 / (time_delta * 1024 * 1024), reduced by 64
to_Mbps(delta, time_delta) == round_div(delta * 125, time_delta * 16384)

\* round((bps * 8) / (link_speed_mbps * 1000 * 1000) * 100, 2), or -1.0, in hundredths:
\* delta * 10 * 8 * 100 * 100 / (time_delta * link_speed_mbps * 1000 * 1000), reduced by 100000
percent_of_link(delta, time_delta, link_speed_mbps) ==
    IF link_speed_mbps > 0
    THEN round_div(delta * 8, time_delta * link_speed_mbps * 10)
    ELSE -100

EmptyNetworkData ==
    [total |-> [sent_Mbps |-> 0, recv_Mbps |-> 0, throughput_Mbps |-> 0], interfaces |-> <<>>]

\* network_data of a tick: interfaces that have a previous sample and are up, and
\* the totals over them
network_data(current, last, time_delta) ==
    IF current = Null \/ last = Null THEN EmptyNetworkData
    ELSE LET cur == Val(current)
             prev == Val(last)
             up == {i \in nics_with_previous(cur, prev) : cur[NicNames[i]].isup}
             sent(nic) == counter_delta(cur[nic].bytes_sent, prev[nic].bytes_sent)
             recv(nic) == counter_delta(cur[nic].bytes_recv, prev[nic].bytes_recv)
         IN  [total |->
                 [sent_Mbps |-> to_Mbps(total_delta(cur, prev, "bytes_sent"), time_delta),
                  recv_Mbps |-> to_Mbps(total_delta(cur, prev, "bytes_recv"), time_delta),
                  throughput_Mbps |-> to_Mbps(total_delta(cur, prev, "bytes_sent")
                                              + total_delta(cur, prev, "bytes_recv"), time_delta)],
              interfaces |->
                 [i \in up |->
                     [name |-> NicNames[i],
                      is_up |-> cur[NicNames[i]].isup,
                      link_speed_mbps |-> cur[NicNames[i]].speed,
                      sent_Mbps |-> to_Mbps(sent(NicNames[i]), time_delta),
                      recv_Mbps |-> to_Mbps(recv(NicNames[i]), time_delta),
                      sent_percent_of_link |->
                          percent_of_link(sent(NicNames[i]), time_delta, cur[NicNames[i]].speed),
                      recv_percent_of_link |->
                          percent_of_link(recv(NicNames[i]), time_delta, cur[NicNames[i]].speed)]]]

\* round(delta / time_delta, 2)
per_second(delta, time_delta) == round_div(delta * 10 * 100, time_delta)

\* disk_io_rates = {}
NoDiskRates == [disk \in {} |-> 0]

\* disk_io_rates of a tick: empty without a previous or a current reading, else
\* the rates of the disks that have a previous sample
disk_io_rates(current, last, time_delta) ==
    IF current = Null \/ last = Null THEN NoDiskRates
    ELSE LET cur == Val(current)
             prev == Val(last)
         IN  [disk \in disks_with_previous(cur, prev) |->
                [read_Bps |-> per_second(counter_delta(cur[disk].read_bytes,
                                                       prev[disk].read_bytes), time_delta),
                 write_Bps |-> per_second(counter_delta(cur[disk].write_bytes,
                                                        prev[disk].write_bytes), time_delta),
                 read_ops_ps |-> per_second(counter_delta(cur[disk].read_count,
                                                          prev[disk].read_count), time_delta),
                 write_ops_ps |-> per_second(counter_delta(cur[disk].write_count,
                                                           prev[disk].write_count), time_delta)]]

\* peer_traffic_this_interval: bytes and round(bytes * 8 / (time_delta * 1024 * 1024), 3)
peer_traffic_this_interval(current_peer_counts, time_delta) ==
    [k \in FlowKeys |->
        [bytes |-> current_peer_counts[k],
         Mbps |-> round_div(current_peer_counts[k] * 8 * 10 * 1000, time_delta * 1024 * 1024)]]

\* latest_ping_results = {}
NoPingResults == [target \in {} |-> "none"]

NoPayload == [interval_sec |-> 0, network |-> EmptyNetworkData, disk_io |-> NoDiskRates,
              peer_traffic |-> [k \in FlowKeys |-> [bytes |-> 0, Mbps |-> 0]],
              ping_results |-> NoPingResults]

\* how requests.post and raise_for_status can end
SendOutcomes == {"ok", "timeout", "connection_error", "http_error"}

\* the agent's state when main is at position main_pc with the capture library
\* imported or not and the sniffer thread at sniffer_pc
AgentStart(npcap, sniffer_pc, main_pc, thread_pc) ==
    /\ current_peer_ips \in {{"10.0.0.1", "10.0.0.2"}}
    /\ peer_ip_lock = "free"
    /\ peer_byte_counts = ZeroCounts
    /\ peer_data_lock = "free"
    /\ h_pc = "idle"
    /\ h_pkt = NoPacket
    /\ h_tmp = 0
    /\ r_pc = main_pc
    /\ r_copy = ZeroCounts
    /\ classified = ZeroCounts
    /\ drained = ZeroCounts
    /\ n_packets = 0
    /\ stop_event = FALSE
    /\ NPCAP_AVAILABLE = npcap
    /\ s_pc = sniffer_pc
    /\ f_pc = thread_pc
    /\ p_pc = thread_pc
    /\ poll_result = "ok"
    /\ latest_ping_results = NoPingResults
    /\ last_report_time = 0
    /\ r_current_time = 0
    /\ r_time_delta = 0
    /\ r_payload = NoPayload
    /\ send_result = "none"
    /\ posted = ZeroCounts
    /\ n_posts = 0
    /\ ping_results_lock = "free"
    /\ targets_to_ping = {}
    /\ results_this_round = NoPingResults
    /\ probed = {}
    /\ n_rounds = 0

\* all threads started, the sniffer is capturing, the reporting loop waits; the
\* collector runs on another host
InitAgent ==
    /\ AgentStart(TRUE, "sniffing", "wait", "wait")
    /\ collector_ip = COLLECTOR_IP
    /\ last_net_counters = Some(NetBoot)
    /\ last_disk_counters = Some(DiskBoot)

\* what the collector's peer directory answered, or how the request failed
ListResponse(ips_list) == [kind |-> "list", ips_list |-> ips_list]
FailedResponse(kind) == [kind |-> kind, ips_list |-> {}]
\* requests Timeout, ConnectionError, HTTPError; a body that is no JSON; JSON that is no list
PollFailures == {"timeout", "connection_error", "http_error", "not_json", "not_list"}

\* the entries of ips_list that ipaddress.ip_address accepts
valid_ips(ips_list) == {ip \in ips_list : ip \in WellFormedIPs}

after_failed_poll_Clear(peers) == {}

\* return False: current_peer_ips is not assigned
after_failed_poll(peers) == peers

\* refresh_peer_ips_periodically: the wait ends without the stop signal and
\* get_peer_ips_from_collector runs; a list swaps the set under peer_ip_lock
RefreshPeers(response) ==
    /\ f_pc = "wait"
    /\ ~stop_event
    /\ IF response.kind = "list"
       THEN /\ peer_ip_lock = "free"
            /\ current_peer_ips' = valid_ips(response.ips_list)
            /\ poll_result' = "ok"
       ELSE /\ current_peer_ips' = after_failed_poll(current_peer_ips)
            /\ poll_result' = response.kind
    /\ UNCHANGED <<peer_ip_lock, peer_byte_counts, peer_data_lock, h_pc, h_pkt, h_tmp,
                   r_pc, r_copy, classified, drained, n_packets>>
    /\ UNCHANGED <<stop_event, NPCAP_AVAILABLE, s_pc, f_pc, p_pc, latest_ping_results,
                   last_report_time, last_net_counters, last_disk_counters, r_current_time,
                   r_time_delta, r_payload, send_result, posted, n_posts>>
    /\ UNCHANGED <<pingVars, collVars>>

\* packet_handler: a packet arrives and the handler takes peer_ip_lock
HandlerLockPeers(src, dst, size) ==
    /\ s_pc = "sniffing"
    /\ h_pc = "idle"
    /\ n_packets < MaxPackets
    /\ peer_ip_lock = "free"
    /\ peer_ip_lock' = "sniffer"
    /\ h_pkt' = [src |-> src, dst |-> dst, size |-> size]
    /\ h_pc' = "classify"
    /\ n_packets' = n_packets + 1
    /\ UNCHANGED <<current_peer_ips, peer_byte_counts, peer_data_lock, h_tmp,
                   r_pc, r_copy, classified, drained>>
    /\ UNCHANGED <<loopVars, pingVars, collVars>>

is_internal_traffic_Either(pkt, peers) ==
    peers # {} /\ (pkt.src \in peers \/ pkt.dst \in peers)

\* current_peer_ips and src_ip in current_peer_ips and dst_ip in current_peer_ips
is_internal_traffic(pkt, peers) ==
    peers # {} /\ pkt.src \in peers /\ pkt.dst \in peers

HandlerClassify_HoldPeerLock ==
    /\ h_pc = "classify"
    /\ IF is_internal_traffic(h_pkt, current_peer_ips)
       THEN /\ h_pc' = "want_data"
            /\ classified' = [classified EXCEPT ![<<h_pkt.src, h_pkt.dst>>] = @ + h_pkt.size]
            /\ UNCHANGED <<h_pkt, peer_ip_lock>>
       ELSE /\ h_pc' = "idle"
            /\ h_pkt' = NoPacket
            /\ peer_ip_lock' = "free"
            /\ UNCHANGED classified
    /\ UNCHANGED <<current_peer_ips, peer_byte_counts, peer_data_lock, h_tmp,
                   r_pc, r_copy, drained, n_packets>>
    /\ UNCHANGED <<loopVars, pingVars, collVars>>

\* packet_handler: membership test under peer_ip_lock, then release
HandlerClassify ==
    /\ h_pc = "classify"
    /\ peer_ip_lock' = "free"
    /\ IF is_internal_traffic(h_pkt, current_peer_ips)
       THEN /\ h_pc' = "want_data"
            /\ classified' = [classified EXCEPT ![<<h_pkt.src, h_pkt.dst>>] = @ + h_pkt.size]
            /\ UNCHANGED h_pkt
       ELSE /\ h_pc' = "idle"
            /\ h_pkt' = NoPacket
            /\ UNCHANGED classified
    /\ UNCHANGED <<current_peer_ips, peer_byte_counts, peer_data_lock, h_tmp,
                   r_pc, r_copy, drained, n_packets>>
    /\ UNCHANGED <<loopVars, pingVars, collVars>>

\* packet_handler: with peer_data_lock
HandlerLockData ==
    /\ h_pc = "want_data"
    /\ peer_data_lock = "free"
    /\ peer_data_lock' = "sniffer"
    /\ h_pc' = "read"
    /\ UNCHANGED <<current_peer_ips, peer_ip_lock, peer_byte_counts, h_pkt, h_tmp,
                   r_pc, r_copy, classified, drained, n_packets>>
    /\ UNCHANGED <<loopVars, pingVars, collVars>>

\* packet_handler: peer_byte_counts[traffic_key] += packet_size, the load
HandlerRead ==
    /\ h_pc = "read"
    /\ h_tmp' = peer_byte_counts[<<h_pkt.src, h_pkt.dst>>]
    /\ h_pc' = "write"
    /\ UNCHANGED <<current_peer_ips, peer_ip_lock, peer_byte_counts, peer_data_lock, h_pkt,
                   r_pc, r_copy, classified, drained, n_packets>>
    /\ UNCHANGED <<loopVars, pingVars, collVars>>

\* packet_handler: the store of the +=, then the lock is released
HandlerWrite ==
    /\ h_pc = "write"
    /\ peer_byte_counts' = [peer_byte_counts EXCEPT ![<<h_pkt.src, h_pkt.dst>>] = h_tmp + h_pkt.size]
    /\ peer_data_lock' = "free"
    /\ h_pc' = "idle"
    /\ h_pkt' = NoPacket
    /\ h_tmp' = 0
    /\ UNCHANGED <<current_peer_ips, peer_ip_lock, r_pc, r_copy, classified, drained, n_packets>>
    /\ UNCHANGED <<loopVars, pingVars, collVars>>

ReportSkip_Advance(elapsed) ==
    /\ r_pc = "wait"
    /\ ~stop_event
    /\ elapsed < MIN_TIME_DELTA
    /\ r_current_time' = last_report_time + elapsed
    /\ r_time_delta' = elapsed
    /\ last_report_time' = last_report_time + elapsed
    /\ UNCHANGED <<current_peer_ips, peer_ip_lock, peer_byte_counts, peer_data_lock,
                   h_pc, h_pkt, h_tmp, r_pc, r_copy, classified, drained, n_packets>>
    /\ UNCHANGED <<stop_event, NPCAP_AVAILABLE, s_pc, f_pc, p_pc, poll_result,
                   latest_ping_results, last_net_counters,
                   last_disk_counters, r_payload, send_result, posted, n_posts>>
    /\ UNCHANGED <<pingVars, collVars>>

\* reporting loop: the wait is over, time.time() is read and time_delta is below
\* the floor: continue
ReportSkip(elapsed) ==
    /\ r_pc = "wait"
    /\ ~stop_event
    /\ elapsed < MIN_TIME_DELTA
    /\ r_current_time' = last_report_time + elapsed
    /\ r_time_delta' = elapsed
    /\ UNCHANGED <<current_peer_ips, peer_ip_lock, peer_byte_counts, peer_data_lock,
                   h_pc, h_pkt, h_tmp, r_pc, r_copy, classified, drained, n_packets>>
    /\ UNCHANGED <<stop_event, NPCAP_AVAILABLE, s_pc, f_pc, p_pc, poll_result,
                   latest_ping_results, last_report_time, last_net_counters,
                   last_disk_counters, r_payload, send_result, posted, n_posts>>
    /\ UNCHANGED <<pingVars, collVars>>

ReportDrainLock_NoLock(elapsed) ==
    /\ r_pc = "wait"
    /\ ~stop_event
    /\ NPCAP_AVAILABLE
    /\ elapsed >= MIN_TIME_DELTA
    /\ last_report_time + elapsed <= MaxClock
    /\ r_current_time' = last_report_time + elapsed
    /\ r_time_delta' = elapsed
    /\ r_pc' = "copy"
    /\ UNCHANGED <<current_peer_ips, peer_ip_lock, peer_byte_counts, peer_data_lock,
                   h_pc, h_pkt, h_tmp, r_copy, classified, drained, n_packets>>
    /\ UNCHANGED <<stop_event, NPCAP_AVAILABLE, s_pc, f_pc, p_pc, poll_result,
                   latest_ping_results, last_report_time, last_net_counters,
                   last_disk_counters, r_payload, send_result, posted, n_posts>>
    /\ UNCHANGED <<pingVars, collVars>>

\* reporting loop: the wait is over, time_delta is at least the floor: with peer_data_lock
ReportDrainLock(elapsed) ==
    /\ r_pc = "wait"
    /\ ~stop_event
    /\ NPCAP_AVAILABLE
    /\ elapsed >= MIN_TIME_DELTA
    /\ last_report_time + elapsed <= MaxClock
    /\ peer_data_lock = "free"
    /\ peer_data_lock' = "reporter"
    /\ r_current_time' = last_report_time + elapsed
    /\ r_time_delta' = elapsed
    /\ r_pc' = "copy"
    /\ UNCHANGED <<current_peer_ips, peer_ip_lock, peer_byte_counts,
                   h_pc, h_pkt, h_tmp, r_copy, classified, drained, n_packets>>
    /\ UNCHANGED <<stop_event, NPCAP_AVAILABLE, s_pc, f_pc, p_pc, poll_result,
                   latest_ping_results, last_report_time, last_net_counters,
                   last_disk_counters, r_payload, send_result, posted, n_posts>>
    /\ UNCHANGED <<pingVars, collVars>>

\* reporting loop without the capture library: the drain is not entered and
\* peer_traffic_this_interval stays empty
ReportNoCapture(elapsed) ==
    /\ r_pc = "wait"
    /\ ~stop_event
    /\ ~NPCAP_AVAILABLE
    /\ elapsed >= MIN_TIME_DELTA
    /\ last_report_time + elapsed <= MaxClock
    /\ r_current_time' = last_report_time + elapsed
    /\ r_time_delta' = elapsed
    /\ r_copy' = ZeroCounts
    /\ r_pc' = "send"
    /\ UNCHANGED <<current_peer_ips, peer_ip_lock, peer_byte_counts, peer_data_lock,
                   h_pc, h_pkt, h_tmp, classified, drained, n_packets>>
    /\ UNCHANGED <<stop_event, NPCAP_AVAILABLE, s_pc, f_pc, p_pc, poll_result,
                   latest_ping_results, last_report_time, last_net_counters,
                   last_disk_counters, r_payload, send_result, posted, n_posts>>
    /\ UNCHANGED <<pingVars, collVars>>

\* reporting loop: current_peer_counts = peer_byte_counts.copy()
ReportDrainCopy ==
    /\ r_pc = "copy"
    /\ r_copy' = peer_byte_counts
    /\ r_pc' = "clear"
    /\ UNCHANGED <<current_peer_ips, peer_ip_lock, peer_byte_counts, peer_data_lock,
                   h_pc, h_pkt, h_tmp, classified, drained, n_packets>>
    /\ UNCHANGED <<loopVars, pingVars, collVars>>

\* reporting loop: peer_byte_counts.clear(), then the lock is released
ReportDrainClear ==
    /\ r_pc = "clear"
    /\ peer_byte_counts' = ZeroCounts
    /\ peer_data_lock' = IF peer_data_lock = "reporter" THEN "free" ELSE peer_data_lock
    /\ drained' = [k \in FlowKeys |-> drained[k] + r_copy[k]]
    /\ r_pc' = "send"
    /\ UNCHANGED <<current_peer_ips, peer_ip_lock, h_pc, h_pkt, h_tmp, r_copy,
                   classified, n_packets>>
    /\ UNCHANGED <<loopVars, pingVars, collVars>>

after_failed_send_Requeue(counts, current_peer_counts) ==
    [k \in FlowKeys |-> counts[k] + current_peer_counts[k]]

\* the except clauses of the send print one letter: the accumulator is not touched
after_failed_send(counts, current_peer_counts) == counts

\* reporting loop: the counters are read, rates computed, latest_ping_results
\* copied under ping_results_lock, the payload assembled and posted once; whatever
\* the outcome last_report_time and the counters advance
ReportSend(current_net_counters, current_disk_counters, outcome) ==
    /\ r_pc = "send"
    /\ ping_results_lock = "free"
    /\ r_payload' = [interval_sec |-> r_time_delta,
                     network |-> network_data(current_net_counters,
                                              previous_sample(last_net_counters,
                                                              current_net_counters),
                                              r_time_delta),
                     disk_io |-> disk_io_rates(current_disk_counters,
                                               previous_sample(last_disk_counters,
                                                               current_disk_counters),
                                               r_time_delta),
                     peer_traffic |-> peer_traffic_this_interval(r_copy, r_time_delta),
                     ping_results |-> latest_ping_results]
    /\ send_result' = outcome
    /\ n_posts' = n_posts + 1
    /\ posted' = [k \in FlowKeys |-> posted[k] + r_copy[k]]
    /\ peer_byte_counts' = IF outcome = "ok" THEN peer_byte_counts
                           ELSE after_failed_send(peer_byte_counts, r_copy)
    /\ last_report_time' = r_current_time
    /\ last_net_counters' = IF current_net_counters # Null THEN current_net_counters
                            ELSE last_net_counters
    /\ last_disk_counters' = IF current_disk_counters # Null THEN current_disk_counters
                             ELSE last_disk_counters
    /\ r_copy' = ZeroCounts
    /\ r_pc' = "wait"
    /\ UNCHANGED <<current_peer_ips, peer_ip_lock, peer_data_lock,
                   h_pc, h_pkt, h_tmp, classified, drained, n_packets>>
    /\ UNCHANGED <<stop_event, NPCAP_AVAILABLE, s_pc, f_pc, p_pc, poll_result,
                   latest_ping_results, r_current_time, r_time_delta>>
    /\ UNCHANGED <<pingVars, collVars>>

\* ------------------------------------------------------------------------
\* Start and end of the agent's threads
\* ------------------------------------------------------------------------
\* the except clauses of start_sniffer
SnifferErrors == {"PermissionError", "OSError", "Exception"}
PingStatuses == {"success", "timeout", "error"}

pipelineVars == <<current_peer_ips, peer_ip_lock, peer_byte_counts, peer_data_lock,
                  h_pc, h_pkt, h_tmp, r_copy, classified, drained, n_packets>>
reportVars == <<last_report_time, last_net_counters, last_disk_counters, r_current_time,
                r_time_delta, r_payload, send_result, posted, n_posts>>

\* start_sniffer: sniff() is capturing
SnifferStarted ==
    /\ s_pc = "starting"
    /\ s_pc' = "sniffing"
    /\ UNCHANGED <<pipelineVars, r_pc, reportVars>>
    /\ UNCHANGED <<stop_event, NPCAP_AVAILABLE, f_pc, p_pc, poll_result, latest_ping_results>>
    /\ UNCHANGED <<pingVars, collVars>>

\* start_sniffer: sniff() raises, at the start or while capturing, and the except
\* clause sets the stop event
SnifferFail(error) ==
    /\ s_pc \in {"starting", "sniffing"}
    /\ h_pc = "idle"
    /\ s_pc' = error
    /\ stop_event' = TRUE
    /\ UNCHANGED <<pipelineVars, r_pc, reportVars>>
    /\ UNCHANGED <<NPCAP_AVAILABLE, f_pc, p_pc, poll_result, latest_ping_results>>
    /\ UNCHANGED <<pingVars, collVars>>

\* start_sniffer: stop_filter sees the stop event and sniff() returns
SnifferStop ==
    /\ s_pc = "sniffing"
    /\ h_pc = "idle"
    /\ stop_event
    /\ s_pc' = "stopped"
    /\ UNCHANGED <<pipelineVars, r_pc, reportVars>>
    /\ UNCHANGED <<stop_event, NPCAP_AVAILABLE, f_pc, p_pc, poll_result, latest_ping_results>>
    /\ UNCHANGED <<pingVars, collVars>>

\* __main__: two seconds after the sniffer thread was started the stop event is
\* tested: sys.exit(1) if it is set, else the refresh and ping threads start and
\* the reporting loop is entered
MainStartupCheck ==
    /\ r_pc = "startup"
    /\ IF NPCAP_AVAILABLE /\ stop_event
       THEN r_pc' = "exited" /\ UNCHANGED <<f_pc, p_pc>>
       ELSE r_pc' = "wait" /\ f_pc' = "wait" /\ p_pc' = "wait"
    /\ UNCHANGED <<pipelineVars, reportVars>>
    /\ UNCHANGED <<stop_event, NPCAP_AVAILABLE, s_pc, poll_result, latest_ping_results>>
    /\ UNCHANGED <<pingVars, collVars>>

\* signal_handler: SIGINT or SIGTERM in the main thread sets the stop event and
\* raises SystemExit out of the reporting loop, releasing the lock of a with block
SignalStop ==
    /\ r_pc \notin {"startup", "exited", "stopped"}
    /\ stop_event' = TRUE
    /\ r_pc' = "exited"
    /\ peer_data_lock' = IF peer_data_lock = "reporter" THEN "free" ELSE peer_data_lock
    /\ UNCHANGED <<current_peer_ips, peer_ip_lock, peer_byte_counts,
                   h_pc, h_pkt, h_tmp, r_copy, classified, drained, n_packets>>
    /\ UNCHANGED reportVars
    /\ UNCHANGED <<NPCAP_AVAILABLE, s_pc, f_pc, p_pc, poll_result, latest_ping_results>>
    /\ UNCHANGED <<pingVars, collVars>>

\* reporting loop: while not stop_event.is_set() ends, or the wait returns with
\* the event set: break
ReportStop ==
    /\ r_pc = "wait"
    /\ stop_event
    /\ r_pc' = "stopped"
    /\ UNCHANGED <<pipelineVars, reportVars>>
    /\ UNCHANGED <<stop_event, NPCAP_AVAILABLE, s_pc, f_pc, p_pc, poll_result, latest_ping_results>>
    /\ UNCHANGED <<pingVars, collVars>>

\* refresh_peer_ips_periodically: stop_evt.wait returns True
RefreshStop ==
    /\ f_pc = "wait"
    /\ stop_event
    /\ f_pc' = "stopped"
    /\ UNCHANGED <<pipelineVars, r_pc, reportVars>>
    /\ UNCHANGED <<stop_event, NPCAP_AVAILABLE, s_pc, p_pc, poll_result, latest_ping_results>>
    /\ UNCHANGED <<pingVars, collVars>>

\* probe rounds that may start
MaxRounds == 3

\* targets_to_ping: the peers, the collector if its address is set, self left out
select_targets(peers, collector, self) ==
    (peers \cup (IF collector # "" THEN {collector} ELSE {})) \ {self}

latest_after_round_Merge(stored, round) == round @@ stored

\* latest_ping_results = results_this_round
latest_after_round(stored, round) == round

\* ping_targets_periodically: the wait ends without the stop signal: with peer_ip_lock
PingLockPeers ==
    /\ p_pc = "wait"
    /\ ~stop_event
    /\ n_rounds < MaxRounds
    /\ peer_ip_lock = "free"
    /\ peer_ip_lock' = "pinger"
    /\ p_pc' = "targets"
    /\ n_rounds' = n_rounds + 1
    /\ UNCHANGED <<current_peer_ips, peer_byte_counts, peer_data_lock,
                   h_pc, h_pkt, h_tmp, r_copy, classified, drained, n_packets>>
    /\ UNCHANGED <<r_pc, reportVars>>
    /\ UNCHANGED <<stop_event, NPCAP_AVAILABLE, s_pc, f_pc, poll_result, latest_ping_results>>
    /\ UNCHANGED <<collector_ip, ping_results_lock, targets_to_ping, results_this_round, probed>>
    /\ UNCHANGED collVars

\* ping_targets_periodically: the peers are copied and the lock released; the
\* round is skipped when no target is left, else results_this_round = {}
PingReadPeers ==
    LET targets == select_targets(current_peer_ips, collector_ip, AGENT_IP)
    IN  /\ p_pc = "targets"
        /\ peer_ip_lock' = "free"
        /\ probed' = {}
        /\ IF targets = {}
           THEN /\ p_pc' = "wait"
                /\ UNCHANGED <<targets_to_ping, results_this_round>>
           ELSE /\ p_pc' = "probe"
                /\ targets_to_ping' = targets
                /\ results_this_round' = NoPingResults
        /\ UNCHANGED <<current_peer_ips, peer_byte_counts, peer_data_lock,
                       h_pc, h_pkt, h_tmp, r_copy, classified, drained, n_packets>>
        /\ UNCHANGED <<r_pc, reportVars>>
        /\ UNCHANGED <<stop_event, NPCAP_AVAILABLE, s_pc, f_pc, poll_result, latest_ping_results>>
        /\ UNCHANGED <<collector_ip, ping_results_lock, n_rounds>>
        /\ UNCHANGED collVars

\* ping_targets_periodically: execute_ping of the next target of the for loop, its
\* result recorded; the loop ends after the last target or when the stop event is set
PingProbe(target, status) ==
    /\ p_pc = "probe"
    /\ target \in targets_to_ping
    /\ results_this_round' = (target :> status) @@ results_this_round
    /\ probed' = probed \cup {target}
    /\ targets_to_ping' = targets_to_ping \ {target}
    /\ p_pc' = IF stop_event \/ targets_to_ping = {target} THEN "want_results" ELSE "probe"
    /\ UNCHANGED <<pipelineVars, r_pc, reportVars>>
    /\ UNCHANGED <<stop_event, NPCAP_AVAILABLE, s_pc, f_pc, poll_result, latest_ping_results>>
    /\ UNCHANGED <<collector_ip, ping_results_lock, n_rounds>>
    /\ UNCHANGED collVars

\* ping_targets_periodically: with ping_results_lock
PingLockResults ==
    /\ p_pc = "want_results"
    /\ ping_results_lock = "free"
    /\ ping_results_lock' = "pinger"
    /\ p_pc' = "store"
    /\ UNCHANGED <<pipelineVars, r_pc, reportVars>>
    /\ UNCHANGED <<stop_event, NPCAP_AVAILABLE, s_pc, f_pc, poll_result, latest_ping_results>>
    /\ UNCHANGED <<collector_ip, targets_to_ping, results_this_round, probed, n_rounds>>
    /\ UNCHANGED collVars

\* ping_targets_periodically: the results of the round are stored, the lock is
\* released and the thread waits for the next round
PingStore ==
    /\ p_pc = "store"
    /\ latest_ping_results' = latest_after_round(latest_ping_results, results_this_round)
    /\ ping_results_lock' = "free"
    /\ p_pc' = "wait"
    /\ UNCHANGED <<pipelineVars, r_pc, reportVars>>
    /\ UNCHANGED <<stop_event, NPCAP_AVAILABLE, s_pc, f_pc, poll_result>>
    /\ UNCHANGED <<collector_ip, targets_to_ping, results_this_round, probed, n_rounds>>
    /\ UNCHANGED collVars

\* ping_targets_periodically: stop_evt.wait returns True
PingStop ==
    /\ p_pc = "wait"
    /\ stop_event
    /\ p_pc' = "stopped"
    /\ UNCHANGED <<pipelineVars, r_pc, reportVars>>
    /\ UNCHANGED <<stop_event, NPCAP_AVAILABLE, s_pc, f_pc, poll_result, latest_ping_results>>
    /\ UNCHANGED <<pingVars, collVars>>
\* ------------------------------------------------------------------------
\* Collector configuration (simple_ui_collector.py)
\* ------------------------------------------------------------------------
STALE_THRESHOLD_SECONDS == 120
ALERT_CPU_THRESHOLD == 90
ALERT_MEM_THRESHOLD == 90
ALERT_DISK_THRESHOLD == 95
NETWORK_CHOKE_THRESHOLD_PERCENT == 80
ALERT_AGENT_DOWN_SECONDS == STALE_THRESHOLD_SECONDS * 2
ALERT_PING_FAIL_THRESHOLD_MINUTES == 5
ALERT_PING_LATENCY_THRESHOLD_MS == 500
DATA_RETENTION_DAYS == 7
\* the batch size of the source is 5000; the model keeps the batching with a
\* batch that the bounded metrics table can exceed
CLEANUP_BATCH_SIZE == 2
COLLECTOR_ID_FOR_GRAPH == "collector-host"

\* the clock starts at an arbitrary epoch later than every window
StartTime == 1000
MaxTicks == 3
MaxReports == 3

\* ------------------------------------------------------------------------
\* generate_alert_key
\* ------------------------------------------------------------------------
RECURSIVE safe_target(_)
\* str(t).replace(' ', '_').replace(':', '').replace('\\', '').replace('/', '')
safe_target(t) ==
    IF t = <<>> THEN <<>>
    ELSE IF Head(t) = " " THEN <<"_">> \o safe_target(Tail(t))
    ELSE IF Head(t) \in {":", "\\", "/"} THEN safe_target(Tail(t))
    ELSE <<Head(t)>> \o safe_target(Tail(t))

generate_alert_key(hostname, alert_type, specific_target) ==
    LET key == hostname \o <<"_">> \o alert_type
    IN  IF specific_target # <<>> THEN key \o <<"_">> \o safe_target(specific_target)
        ELSE key

CPU_HIGH == <<"cpu", "_", "high">>
MEM_HIGH == <<"mem", "_", "high">>
DISK_HIGH == <<"disk", "_", "high">>
NET_CHOKED == <<"net", "_", "choked">>
PING_FAIL == <<"ping", "_", "fail">>
PING_LATENCY_HIGH == <<"ping", "_", "latency", "_", "high">>
AGENT_DOWN == <<"agent", "_", "down">>

\* ------------------------------------------------------------------------
\* extract_key_metrics
\* ------------------------------------------------------------------------
\* payload.get(..., -1.0) of a percent
OrMinusOne(x) == IF x = Null THEN -1 ELSE Val(x)

process_adapter(a) ==
    LET valid_percents == {p \in {a.sent_percent_of_link, a.recv_percent_of_link} : p >= 0}
        utilization == IF valid_percents = {} THEN -1
                       ELSE CHOOSE p \in valid_percents : \A q \in valid_percents : p >= q
    IN  [name |-> a.name,
         is_up |-> a.is_up,
         utilization_percent |-> utilization,
         is_choked |-> (a.is_up /\ utilization >= NETWORK_CHOKE_THRESHOLD_PERCENT)]

extract_key_metrics(payload) ==
    [hostname |-> payload.hostname,
     agent_ip |-> payload.agent_ip,
     cpu_percent |-> OrMinusOne(payload.cpu),
     mem_percent |-> OrMinusOne(payload.memory),
     disks |-> payload.disk_usage,
     network_adapters |-> [i \in DOMAIN payload.interfaces |-> process_adapter(payload.interfaces[i])],
     peer_traffic |-> payload.peer_traffic,
     ping_results |-> payload.ping_results]

\* ------------------------------------------------------------------------
\* Table alerts: UPSERT and resolve (update_or_insert_alert)
\* ------------------------------------------------------------------------
\* SQL a != b: NULL on either side makes the comparison not true
SqlNe(a, b) == a # Null /\ b # Null /\ a # b

HasRow(tbl, key) == \E i \in DOMAIN tbl : tbl[i].alert_key = key

\* INSERT INTO alerts ... ON CONFLICT(alert_key) DO UPDATE SET ... WHERE ...
upsert_active_Append(tbl, row) == Append(tbl, row)

upsert_active(tbl, row) ==
    IF HasRow(tbl, row.alert_key)
    THEN [i \in DOMAIN tbl |->
            IF tbl[i].alert_key = row.alert_key
               /\ (\/ tbl[i].status # "active"
                   \/ SqlNe(tbl[i].current_value, row.current_value)
                   \/ tbl[i].message # row.message)
            THEN [tbl[i] EXCEPT !.status = "active",
                                !.message = row.message,
                                !.current_value = row.current_value,
                                !.threshold_value = row.threshold_value,
                                !.last_active_unix = row.last_active_unix,
                                !.resolved_unix = Null]
            ELSE tbl[i]]
    ELSE Append(tbl, row)

resolve_active_Delete(tbl, key, t) ==
    SelectSeq(tbl, LAMBDA r : ~(r.alert_key = key /\ r.status = "active"))

resolve_active_Keep(tbl, key, t) == tbl

\* UPDATE alerts SET status = 'resolved', resolved_unix = ? WHERE alert_key = ? AND status = 'active'
resolve_active(tbl, key, t) ==
    [i \in DOMAIN tbl |->
        IF tbl[i].alert_key = key /\ tbl[i].status = "active"
        THEN [tbl[i] EXCEPT !.status = "resolved", !.resolved_unix = Some(t)]
        ELSE tbl[i]]

AlertRow(key, hostname, alert_type, target, message, value, threshold, t) ==
    [alert_key |-> key, hostname |-> hostname, alert_type |-> alert_type,
     specific_target |-> target, status |-> "active", message |-> message,
     current_value |-> value, threshold_value |-> threshold,
     first_triggered_unix |-> t, last_active_unix |-> t, resolved_unix |-> Null]

\* c is what check_and_update_alerts passes: the trigger, the key and the row values
update_or_insert_alert(tbl, c, t) ==
    IF c.is_triggered
    THEN upsert_active(tbl, AlertRow(c.alert_key, c.hostname, c.alert_type, c.specific_target,
                                     c.message, c.value, c.threshold, t))
    ELSE resolve_active(tbl, c.alert_key, t)

Check(is_triggered, hostname, alert_type, target, message, value, threshold) ==
    [is_triggered |-> is_triggered,
     alert_key |-> generate_alert_key(hostname, alert_type, target),
     hostname |-> hostname, alert_type |-> alert_type, specific_target |-> target,
     message |-> message, value |-> value, threshold |-> threshold]

\* ------------------------------------------------------------------------
\* check_and_update_alerts
\* ------------------------------------------------------------------------
Msg(text, target, shown) == [text |-> text, target |-> target, shown |-> shown]

cpu_check(hostname, m) ==
    LET cpu_triggered == m.cpu_percent >= ALERT_CPU_THRESHOLD
    IN  Check(cpu_triggered, hostname, CPU_HIGH, <<>>,
              IF cpu_triggered THEN Msg("CPU usage", <<>>, m.cpu_percent)
                               ELSE Msg("CPU usage OK", <<>>, 0),
              Some(m.cpu_percent), Some(ALERT_CPU_THRESHOLD))

mem_check(hostname, m) ==
    LET mem_triggered == m.mem_percent >= ALERT_MEM_THRESHOLD
    IN  Check(mem_triggered, hostname, MEM_HIGH, <<>>,
              IF mem_triggered THEN Msg("Memory usage", <<>>, m.mem_percent)
                               ELSE Msg("Memory usage OK", <<>>, 0),
              Some(m.mem_percent), Some(ALERT_MEM_THRESHOLD))

disk_check(hostname, d) ==
    LET disk_percent == OrMinusOne(d.percent)
        disk_triggered == disk_percent >= ALERT_DISK_THRESHOLD
    IN  Check(disk_triggered, hostname, DISK_HIGH, d.name,
              IF disk_triggered THEN Msg("Disk usage", d.name, disk_percent)
                                ELSE Msg("Disk OK", d.name, 0),
              Some(disk_percent), Some(ALERT_DISK_THRESHOLD))

choke_check(hostname, a) ==
    Check(a.is_choked, hostname, NET_CHOKED, a.name,
          IF a.is_choked THEN Msg("Adapter choked", a.name, a.utilization_percent)
                         ELSE Msg("Adapter OK", a.name, 0),
          Some(a.utilization_percent), Some(NETWORK_CHOKE_THRESHOLD_PERCENT))

IsActive(tbl, key) == \E i \in DOMAIN tbl : tbl[i].alert_key = key /\ tbl[i].status = "active"

\* truthiness of ping_timestamp and the comparison with fail_cutoff_time
ping_recent(p, fail_cutoff_time) ==
    p.timestamp # Null /\ Val(p.timestamp) # 0 /\ Val(p.timestamp) > fail_cutoff_time

is_persistently_failing_Always(tbl, hostname, p, t) ==
    p.status \in {"timeout", "error"}

is_persistently_failing(tbl, hostname, p, t) ==
    LET fail_cutoff_time == t - (ALERT_PING_FAIL_THRESHOLD_MINUTES * 60)
        is_failing == p.status \in {"timeout", "error"}
        result == IsActive(tbl, generate_alert_key(hostname, PING_FAIL, p.target))
    IN  is_failing /\ (\/ (result /\ ping_recent(p, fail_cutoff_time))
                       \/ ping_recent(p, fail_cutoff_time))

ping_fail_check(tbl, hostname, p, t) ==
    LET is_failing == p.status \in {"timeout", "error"}
    IN  Check(is_persistently_failing(tbl, hostname, p, t), hostname, PING_FAIL, p.target,
              IF is_failing THEN Msg("Ping failed", p.target, p.status)
                            ELSE Msg("Ping OK", p.target, "ok"),
              Some(IF is_failing THEN 1 ELSE 0), Some(1))

ping_latency_check(hostname, p) ==
    LET is_high_latency == p.latency_ms # Null /\ Val(p.latency_ms) >= ALERT_PING_LATENCY_THRESHOLD_MS
    IN  Check(is_high_latency, hostname, PING_LATENCY_HIGH, p.target,
              IF is_high_latency THEN Msg("Ping latency high", p.target, Val(p.latency_ms))
                                 ELSE Msg("Ping latency OK", p.target, 0),
              p.latency_ms, Some(ALERT_PING_LATENCY_THRESHOLD_MS))

agent_down_resolve_Skip(hostname) ==
    Check(FALSE, <<"nobody">>, AGENT_DOWN, <<>>, Msg("Agent reported back", <<>>, 0), Null, Null)

\* the closing update_or_insert_alert(False, agent_down_key, ...)
agent_down_resolve(hostname) ==
    Check(FALSE, hostname, AGENT_DOWN, <<>>, Msg("Agent reported back", <<>>, 0), Null, Null)

check_and_update_alerts(tbl, hostname, m, t) ==
    LET after_cpu == update_or_insert_alert(tbl, cpu_check(hostname, m), t)
        after_mem == update_or_insert_alert(after_cpu, mem_check(hostname, m), t)
        after_disks == FoldLeft(LAMBDA acc, d : update_or_insert_alert(acc, disk_check(hostname, d), t),
                                after_mem, m.disks)
        after_net == FoldLeft(LAMBDA acc, a : update_or_insert_alert(acc, choke_check(hostname, a), t),
                              after_disks, m.network_adapters)
        after_ping == FoldLeft(LAMBDA acc, p :
                                  update_or_insert_alert(
                                      update_or_insert_alert(acc, ping_fail_check(acc, hostname, p, t), t),
                                      ping_latency_check(hostname, p), t),
                               after_net, m.ping_results)
    IN  update_or_insert_alert(after_ping, agent_down_resolve(hostname), t)

\* ------------------------------------------------------------------------
\* check_agent_down_status: one pass of the liveness scanner
\* ------------------------------------------------------------------------
scanner_upsert_KeepResolved(tbl, row) ==
    IF HasRow(tbl, row.alert_key)
    THEN [i \in DOMAIN tbl |->
            IF tbl[i].alert_key = row.alert_key
               /\ (\/ tbl[i].status # "active"
                   \/ SqlNe(tbl[i].current_value, row.current_value))
            THEN [tbl[i] EXCEPT !.status = "active",
                                !.message = row.message,
                                !.current_value = row.current_value,
                                !.last_active_unix = row.last_active_unix]
            ELSE tbl[i]]
    ELSE Append(tbl, row)

\* INSERT ... ON CONFLICT(alert_key) DO UPDATE SET ... of the scanner
scanner_upsert(tbl, row) ==
    IF HasRow(tbl, row.alert_key)
    THEN [i \in DOMAIN tbl |->
            IF tbl[i].alert_key = row.alert_key
               /\ (\/ tbl[i].status # "active"
                   \/ SqlNe(tbl[i].current_value, row.current_value))
            THEN [tbl[i] EXCEPT !.status = "active",
                                !.message = row.message,
                                !.current_value = row.current_value,
                                !.last_active_unix = row.last_active_unix,
                                !.resolved_unix = Null]
            ELSE tbl[i]]
    ELSE Append(tbl, row)

is_down_Never(time_since_seen) == FALSE

is_down(time_since_seen) == time_since_seen > ALERT_AGENT_DOWN_SECONDS

scan_agent_Resolve(tbl, a, t) ==
    IF a.last_seen = Null \/ Val(a.last_seen) = 0 THEN tbl
    ELSE LET time_since_seen == t - Val(a.last_seen)
         IN  IF is_down(time_since_seen)
             THEN scanner_upsert(tbl,
                    AlertRow(generate_alert_key(a.hostname, AGENT_DOWN, <<>>), a.hostname,
                             AGENT_DOWN, Null, Msg("Agent has not reported", <<>>, time_since_seen),
                             Some(time_since_seen), Some(ALERT_AGENT_DOWN_SECONDS), t))
             ELSE resolve_active(tbl, generate_alert_key(a.hostname, AGENT_DOWN, <<>>), t)

\* the body of the loop over all_agents for one (hostname, last_seen)
scan_agent(tbl, a, t) ==
    IF a.last_seen = Null \/ Val(a.last_seen) = 0 THEN tbl
    ELSE LET time_since_seen == t - Val(a.last_seen)
         IN  IF is_down(time_since_seen)
             THEN scanner_upsert(tbl,
                    AlertRow(generate_alert_key(a.hostname, AGENT_DOWN, <<>>), a.hostname,
                             AGENT_DOWN, Null, Msg("Agent has not reported", <<>>, time_since_seen),
                             Some(time_since_seen), Some(ALERT_AGENT_DOWN_SECONDS), t))
             ELSE tbl

\* ------------------------------------------------------------------------
\* Table agents (receive_agent_data step 1)
\* ------------------------------------------------------------------------
upsert_agent_Replace(tbl, hostname, agent_ip, t) ==
    IF \E i \in DOMAIN tbl : tbl[i].hostname = hostname
    THEN [i \in DOMAIN tbl |->
            IF tbl[i].hostname = hostname
            THEN [hostname |-> hostname, agent_ip |-> agent_ip,
                  first_seen |-> Some(t), last_seen |-> Some(t)]
            ELSE tbl[i]]
    ELSE Append(tbl, [hostname |-> hostname, agent_ip |-> agent_ip,
                      first_seen |-> Some(t), last_seen |-> Some(t)])

\* INSERT INTO agents ... ON CONFLICT(hostname) DO UPDATE SET agent_ip, last_seen
upsert_agent(tbl, hostname, agent_ip, t) ==
    IF \E i \in DOMAIN tbl : tbl[i].hostname = hostname
    THEN [i \in DOMAIN tbl |->
            IF tbl[i].hostname = hostname
            THEN [tbl[i] EXCEPT !.agent_ip = agent_ip, !.last_seen = Some(t)]
            ELSE tbl[i]]
    ELSE Append(tbl, [hostname |-> hostname, agent_ip |-> agent_ip,
                      first_seen |-> Some(t), last_seen |-> Some(t)])

\* ------------------------------------------------------------------------
\* get_all_peer_flows (simple_ui_collector.py)
\* ------------------------------------------------------------------------
\* flow_key.split('_to_') unpacked into two names; <<>> stands for the ValueError
split_flow_key(k) == IF Len(k) = 3 /\ k[2] = "_to_" THEN <<k[1], k[3]>> ELSE <<>>

SeqRange(s) == {s[i] : i \in DOMAIN s}

is_fresh_Any(last_seen, stale_limit_time) == last_seen # Null

\* WHERE last_seen >= ?
is_fresh(last_seen, stale_limit_time) == last_seen # Null /\ Val(last_seen) >= stale_limit_time

peer_links(rows) ==
    {[source |-> split_flow_key(f.key)[1], target |-> split_flow_key(f.key)[2],
      rate_mbps |-> f.Mbps, type |-> "peer_traffic"] :
        f \in {g \in UNION {SeqRange(row.peer_traffic) : row \in rows} : split_flow_key(g.key) # <<>>}}

get_all_peer_flows(t, agents_tbl, metrics_tbl) ==
    LET stale_limit_time == t - STALE_THRESHOLD_SECONDS
        active_host_rows == {a \in SeqRange(agents_tbl) : is_fresh(a.last_seen, stale_limit_time)}
        host_list == {a.hostname : a \in active_host_rows}
        agent_nodes == {a.agent_ip : a \in active_host_rows}
        with_metrics == {h \in host_list : \E m \in metrics_tbl : m.hostname = h}
        max_ts(h) == CHOOSE ts \in {m.timestamp_unix : m \in {x \in metrics_tbl : x.hostname = h}} :
                        \A m \in metrics_tbl : m.hostname = h => m.timestamp_unix <= ts
        hosts_to_query_final == {h \in with_metrics : max_ts(h) >= stale_limit_time}
        latest_metrics_rows == {m \in metrics_tbl : m.hostname \in hosts_to_query_final
                                                    /\ m.timestamp_unix = max_ts(m.hostname)}
        links == peer_links(latest_metrics_rows)
    IN  [nodes |-> {COLLECTOR_ID_FOR_GRAPH} \cup agent_nodes
                   \cup {l.source : l \in links} \cup {l.target : l \in links},
         links |-> links]

\* ------------------------------------------------------------------------
\* Reports the agents post
\* ------------------------------------------------------------------------
Report(hostname, agent_ip, cpu, memory, disk_usage, interfaces, ping_results, peer_traffic) ==
    [hostname |-> hostname, agent_ip |-> agent_ip, cpu |-> cpu, memory |-> memory,
     disk_usage |-> disk_usage, interfaces |-> interfaces, ping_results |-> ping_results,
     peer_traffic |-> peer_traffic]

Disk(name, percent) == [name |-> name, percent |-> Some(percent)]
Nic(name, is_up, sent, recv) ==
    [name |-> name, is_up |-> is_up, sent_percent_of_link |-> sent, recv_percent_of_link |-> recv]
\* a probe result whose timestamp lies age seconds before the report is received
Probe(target, status, latency_ms, age) ==
    [target |-> target, status |-> status, latency_ms |-> latency_ms, age |-> age]
Flow(src, dst, mbps) == [key |-> <<src, "_to_", dst>>, Mbps |-> mbps]

HostIP(hostname) == IF hostname = H1 THEN "10.0.0.1" ELSE "10.0.0.2"

\* reports that move every threshold rule across its threshold, both ways
ThresholdReports ==
    {Report(H1, HostIP(H1), Some(c[1]), Some(c[2]), <<Disk(<<"root">>, c[3])>>,
            <<Nic(<<"eth0">>, c[4], c[5], 10)>>, <<>>, <<>>) :
        c \in {<<89, 89, 94, TRUE, 79>>, <<90, 89, 96, TRUE, 79>>, <<95, 90, 94, TRUE, 80>>,
               <<95, 95, 95, FALSE, 90>>}}
    \cup {Report(H2, HostIP(H2), Some(c), Some(10), <<>>, <<>>, <<>>, <<>>) : c \in {10, 95}}

\* reports whose latest probe of one target succeeds or fails, recently or long ago
PingReports ==
    {Report(H1, HostIP(H1), Some(10), Some(10), <<>>, <<>>,
            <<Probe(<<"10.0.0.2">>, p[1], p[2], Some(p[3]))>>, <<>>) :
        p \in {<<"success", Some(20), 0>>, <<"success", Some(600), 0>>,
               <<"timeout", Null, 0>>, <<"error", Null, 400>>, <<"timeout", Null, 300>>}}
    \cup {Report(H1, HostIP(H1), Some(10), Some(10), <<>>, <<>>, <<>>, <<>>)}

\* the probe timestamps as the agent stamped them
Stamp(tpl, t) ==
    [tpl EXCEPT !.ping_results =
        [i \in DOMAIN tpl.ping_results |->
            [target |-> tpl.ping_results[i].target,
             status |-> tpl.ping_results[i].status,
             latency_ms |-> tpl.ping_results[i].latency_ms,
             timestamp |-> IF tpl.ping_results[i].age = Null THEN Null
                           ELSE Some(t - Val(tpl.ping_results[i].age))]]]

\* reports of two hosts, one of them breaching the CPU threshold
LivenessReports ==
    {Report(H1, HostIP(H1), Some(c), Some(10), <<>>, <<>>, <<>>, <<>>) : c \in {10, 95}}
    \cup {Report(H2, HostIP(H2), Some(10), Some(10), <<>>, <<>>, <<>>, <<>>)}

\* reports of two hosts carrying flows between them and to an address no host has
TopologyReports ==
    {Report(H1, HostIP(H1), Some(10), Some(10), <<>>, <<>>, <<>>, f) :
        f \in {<<>>, <<Flow("10.0.0.1", "10.0.0.2", 5000)>>, <<Flow("10.0.0.1", "10.0.0.9", 7000)>>}}
    \cup {Report(H2, HostIP(H2), Some(10), Some(10), <<>>, <<>>, <<>>, f) :
        f \in {<<>>, <<Flow("10.0.0.2", "10.0.0.1", 20)>>}}

\* the report of one host whose CPU breaches, posted again and again
RetentionReports ==
    {Report(H1, HostIP(H1), Some(95), Some(10), <<>>, <<>>, <<>>, <<>>)}

\* unremarkable reports of two hosts
ScannerReports ==
    {Report(h, HostIP(h), Some(10), Some(10), <<>>, <<>>, <<>>, <<>>) : h \in {H1, H2}}

\* strings that ipaddress.ip_address refuses
MalformedIPs == {"10.0.0.300", "not-an-ip"}

\* a report that breaches the CPU threshold and leaves agent_ip empty (the
\* collector falls back to the remote address), next to reports whose agent_ip
\* is not an IP address, one of them without a hostname
IngestReports ==
    {Report(H2, "", Some(95), Some(10), <<>>, <<>>, <<>>, <<>>),
     Report(H1, "10.0.0.300", Some(10), Some(10), <<>>, <<>>, <<>>, <<>>),
     Report(<<>>, "not-an-ip", Some(95), Some(10), <<>>, <<>>, <<>>, <<>>)}

\* reports of one host whose address changes between reports
RecordReports ==
    {Report(H1, ip, Some(10), Some(10), <<>>, <<>>, <<>>, <<>>) : ip \in {"10.0.0.1", "10.0.0.2"}}

\* the mount points "/a/b" and "/ab", character by character
MountAB == <<"/", "a", "/", "b">>
MountAb == <<"/", "a", "b">>

\* reports of one host: one with a full disk, a choked interface and a failed
\* probe, one that names no disk, interface or probe target, and one that names
\* another disk only
FrameReports ==
    {Report(H1, HostIP(H1), Some(10), Some(10), <<Disk(MountAB, 96)>>,
            <<Nic(<<"eth0">>, TRUE, 90, 10)>>,
            <<Probe(<<"10.0.0.2">>, "timeout", Null, Some(0))>>, <<>>),
     Report(H1, HostIP(H1), Some(10), Some(10), <<>>, <<>>, <<>>, <<>>),
     Report(H1, HostIP(H1), Some(10), Some(10), <<Disk(MountAb, 10)>>, <<>>, <<>>, <<>>)}

\* reports of one host that differ in their CPU load
ConcurrentReports ==
    {Report(H1, HostIP(H1), Some(c), Some(10), <<>>, <<>>, <<>>, <<>>) : c \in {10, 95}}

\* ------------------------------------------------------------------------
\* Collector: initial state and handlers
\* ------------------------------------------------------------------------
Reqs == {"r1", "r2"}
IdleReq == [pc |-> "idle"]
SleepingScan == [pc |-> "sleep"]
IdleCleanup == [pc |-> "idle"]
\* what a request thread answered: HTTP status and the error it printed
Response(status, logged) == [status |-> status, logged |-> logged]
NoResponse == Response(0, {})

InitColl ==
    /\ now = StartTime
    /\ n_ticks = 0
    /\ agents = <<>>
    /\ metrics = {}
    /\ next_metric_id = 1
    /\ alerts = <<>>
    /\ latest_agent_snapshot = <<>>
    /\ req = [r \in Reqs |-> IdleReq]
    /\ n_reports = 0
    /\ scan = SleepingScan
    /\ cleanup = IdleCleanup
    /\ graph = [nodes |-> {}, links |-> {}, flip |-> 0]
    /\ resp = [r \in Reqs |-> NoResponse]
    /\ interrupted = FALSE

Init == InitAgent /\ InitColl

\* time passes
Tick(d) ==
    /\ n_ticks < MaxTicks
    /\ now' = now + d
    /\ n_ticks' = n_ticks + 1
    /\ UNCHANGED <<agents, metrics, next_metric_id, alerts, latest_agent_snapshot,
                   req, n_reports, scan, cleanup, graph>>
    /\ UNCHANGED <<resp, interrupted, agentVars>>

ip_address_Any(agent_ip) == TRUE

\* ipaddress.ip_address(agent_ip) returns, i.e. does not raise ValueError
ip_address(agent_ip) == agent_ip \in WellFormedIPs

\* receive_agent_data: hostname and agent_ip defaulted and validated, time.time() read.
\* agent_ip "" stands for a field that is missing, empty or not a string.
Receive(r, tpl, remote_addr) ==
    LET payload0 == Stamp(tpl, now)
        hostname == IF payload0.hostname = <<>>
                    THEN <<"ip", "_", IF payload0.agent_ip # "" THEN payload0.agent_ip ELSE remote_addr>>
                    ELSE payload0.hostname
        agent_ip == IF payload0.agent_ip = "" THEN remote_addr ELSE payload0.agent_ip
        payload == [payload0 EXCEPT !.hostname = hostname, !.agent_ip = agent_ip]
    IN  /\ req[r].pc = "idle"
        /\ n_reports < MaxReports
        /\ n_reports' = n_reports + 1
        /\ IF ip_address(agent_ip)
           THEN /\ req' = [req EXCEPT ![r] = [pc |-> "store", hostname |-> hostname,
                                              agent_ip |-> agent_ip, payload |-> payload,
                                              current_time_unix |-> now,
                                              processed_metrics |-> Null]]
                /\ resp' = [resp EXCEPT ![r] = NoResponse]
           ELSE /\ UNCHANGED req
                /\ resp' = [resp EXCEPT ![r] = Response(400, {"invalid_agent_ip"})]
        /\ UNCHANGED <<now, n_ticks, agents, metrics, next_metric_id, alerts,
                       latest_agent_snapshot, scan, cleanup, graph>>
        /\ UNCHANGED <<interrupted, agentVars>>

\* receive_agent_data steps 1-3: agent upsert and metric insert, one commit
Store(r) ==
    /\ req[r].pc = "store"
    /\ agents' = upsert_agent(agents, req[r].hostname, req[r].agent_ip, req[r].current_time_unix)
    /\ metrics' = metrics \cup {[id |-> next_metric_id, hostname |-> req[r].hostname,
                                 timestamp_unix |-> req[r].current_time_unix,
                                 peer_traffic |-> req[r].payload.peer_traffic]}
    /\ next_metric_id' = next_metric_id + 1
    /\ req' = [req EXCEPT ![r].pc = "snapshot"]
    /\ UNCHANGED <<now, n_ticks, alerts, latest_agent_snapshot, n_reports, scan, cleanup, graph>>
    /\ UNCHANGED <<resp, interrupted, agentVars>>

\* places where steps 1-3 can fail: get_db(), the UPSERT, the INSERT, the commit
StoreFaults == {"connect", "upsert", "insert", "commit"}

rollback_Keep(committed, uncommitted) == uncommitted

\* db.rollback(): the table is what it was at the last commit
rollback(committed, uncommitted) == committed

\* receive_agent_data steps 1-3 when the storage layer fails at failed_at: the statements
\* before it have run inside the transaction, then rollback and the 500 response
StoreFail(r, failed_at) ==
    LET uncommitted_agents ==
            IF failed_at \in {"insert", "commit"}
            THEN upsert_agent(agents, req[r].hostname, req[r].agent_ip, req[r].current_time_unix)
            ELSE agents
        uncommitted_metrics ==
            IF failed_at = "commit"
            THEN metrics \cup {[id |-> next_metric_id, hostname |-> req[r].hostname,
                                timestamp_unix |-> req[r].current_time_unix,
                                peer_traffic |-> req[r].payload.peer_traffic]}
            ELSE metrics
    IN  /\ req[r].pc = "store"
        /\ agents' = rollback(agents, uncommitted_agents)
        /\ metrics' = rollback(metrics, uncommitted_metrics)
        /\ req' = [req EXCEPT ![r] = IdleReq]
        /\ resp' = [resp EXCEPT ![r] = Response(500, {"database"})]
        /\ UNCHANGED <<now, n_ticks, next_metric_id, alerts, latest_agent_snapshot, n_reports,
                       scan, cleanup, graph>>
        /\ UNCHANGED <<interrupted, agentVars>>

\* receive_agent_data step 4: the snapshot entry is overwritten under snapshot_lock
Snapshot(r) ==
    /\ req[r].pc = "snapshot"
    /\ latest_agent_snapshot' =
          (req[r].hostname :> [last_seen |-> req[r].current_time_unix,
                               latest_metrics |-> extract_key_metrics(req[r].payload)])
          @@ latest_agent_snapshot
    /\ req' = [req EXCEPT ![r].pc = "alerts",
                          ![r].processed_metrics = Some(extract_key_metrics(req[r].payload))]
    /\ UNCHANGED <<now, n_ticks, agents, metrics, next_metric_id, alerts, n_reports,
                   scan, cleanup, graph>>
    /\ UNCHANGED <<resp, interrupted, agentVars>>

\* receive_agent_data step 4 when extract_key_metrics raises: the error is printed,
\* processed_metrics stays unbound and the snapshot entry is not written
SnapshotFail(r) ==
    /\ req[r].pc = "snapshot"
    /\ req' = [req EXCEPT ![r].pc = "alerts"]
    /\ resp' = [resp EXCEPT ![r].logged = @ \cup {"snapshot"}]
    /\ UNCHANGED <<now, n_ticks, agents, metrics, next_metric_id, alerts, latest_agent_snapshot,
                   n_reports, scan, cleanup, graph>>
    /\ UNCHANGED <<interrupted, agentVars>>

success_Error(logged) == Response(500, logged)

\* return jsonify({"status": "success"}), 200
success(logged) == Response(200, logged)

\* receive_agent_data step 5: check_and_update_alerts, then the 200 response; with
\* processed_metrics unbound the call raises NameError, which is printed and swallowed
CheckAlerts(r) ==
    /\ req[r].pc = "alerts"
    /\ IF req[r].processed_metrics # Null
       THEN /\ alerts' = check_and_update_alerts(alerts, req[r].hostname,
                                                 Val(req[r].processed_metrics), now)
            /\ resp' = [resp EXCEPT ![r] = success(resp[r].logged)]
       ELSE /\ UNCHANGED alerts
            /\ resp' = [resp EXCEPT ![r] = success(resp[r].logged \cup {"alerts"})]
    /\ req' = [req EXCEPT ![r] = IdleReq]
    /\ UNCHANGED <<now, n_ticks, agents, metrics, next_metric_id, latest_agent_snapshot,
                   n_reports, scan, cleanup, graph>>
    /\ UNCHANGED <<interrupted, agentVars>>

\* check_and_update_alerts, first statement: now = time.time()
CheckAlertsBegin(r) ==
    /\ req[r].pc = "alerts"
    /\ req[r].processed_metrics # Null
    /\ req' = [req EXCEPT ![r] = [pc |-> "alerts_write", hostname |-> req[r].hostname,
                                  processed_metrics |-> req[r].processed_metrics,
                                  alert_now |-> now]]
    /\ UNCHANGED <<now, n_ticks, agents, metrics, next_metric_id, alerts, latest_agent_snapshot,
                   n_reports, scan, cleanup, graph>>
    /\ UNCHANGED <<resp, interrupted, agentVars>>

\* check_and_update_alerts, the rule checks with the time taken at its start, then
\* the 200 response
CheckAlertsWrite(r) ==
    /\ req[r].pc = "alerts_write"
    /\ alerts' = check_and_update_alerts(alerts, req[r].hostname,
                                         Val(req[r].processed_metrics), req[r].alert_now)
    /\ resp' = [resp EXCEPT ![r] = success(resp[r].logged)]
    /\ req' = [req EXCEPT ![r] = IdleReq]
    /\ UNCHANGED <<now, n_ticks, agents, metrics, next_metric_id, latest_agent_snapshot,
                   n_reports, scan, cleanup, graph>>
    /\ UNCHANGED <<interrupted, agentVars>>

\* receive_agent_data step 5 when the alert store cannot be written: every
\* update_or_insert_alert prints the sqlite3.Error and rolls back, then the 200 response
CheckAlertsFail(r) ==
    /\ req[r].pc = "alerts"
    /\ req[r].processed_metrics # Null
    /\ req' = [req EXCEPT ![r] = IdleReq]
    /\ resp' = [resp EXCEPT ![r] = success(resp[r].logged \cup {"alert_database"})]
    /\ UNCHANGED <<now, n_ticks, agents, metrics, next_metric_id, alerts, latest_agent_snapshot,
                   n_reports, scan, cleanup, graph>>
    /\ UNCHANGED <<interrupted, agentVars>>

\* check_agent_down_status: now = time.time() and SELECT hostname, last_seen FROM agents
ScanRead ==
    /\ scan.pc = "sleep"
    /\ scan' = [pc |-> "write", now |-> now,
                all_agents |-> [i \in DOMAIN agents |->
                                  [hostname |-> agents[i].hostname, last_seen |-> agents[i].last_seen]]]
    /\ UNCHANGED <<now, n_ticks, agents, metrics, next_metric_id, alerts, latest_agent_snapshot,
                   req, n_reports, cleanup, graph>>
    /\ UNCHANGED <<resp, interrupted, agentVars>>

\* check_agent_down_status: the loop over all_agents and the commit
ScanWrite ==
    /\ scan.pc = "write"
    /\ alerts' = FoldLeft(LAMBDA acc, a : scan_agent(acc, a, scan.now), alerts, scan.all_agents)
    /\ scan' = SleepingScan
    /\ UNCHANGED <<now, n_ticks, agents, metrics, next_metric_id, latest_agent_snapshot,
                   req, n_reports, cleanup, graph>>
    /\ UNCHANGED <<resp, interrupted, agentVars>>

\* cleanup_old_metrics: the cutoff is fixed when the run starts
CleanupStart ==
    /\ cleanup.pc = "idle"
    /\ cleanup' = [pc |-> "batch", cutoff_timestamp |-> now - DATA_RETENTION_DAYS * 24 * 60 * 60]
    /\ UNCHANGED <<now, n_ticks, agents, metrics, next_metric_id, alerts, latest_agent_snapshot,
                   req, n_reports, scan, graph>>
    /\ UNCHANGED <<resp, interrupted, agentVars>>

OldMetrics == {m \in metrics : m.timestamp_unix < cleanup.cutoff_timestamp}

CleanupBatch_Unbounded(rowids_to_delete) ==
    /\ cleanup.pc = "batch"
    /\ rowids_to_delete # {}
    /\ rowids_to_delete = OldMetrics
    /\ metrics' = metrics \ rowids_to_delete
    /\ UNCHANGED <<now, n_ticks, agents, next_metric_id, alerts, latest_agent_snapshot,
                   req, n_reports, scan, cleanup, graph>>
    /\ UNCHANGED <<resp, interrupted, agentVars>>

\* cleanup_old_metrics: one SELECT rowid ... LIMIT ?, DELETE and commit
CleanupBatch(rowids_to_delete) ==
    /\ cleanup.pc = "batch"
    /\ rowids_to_delete # {}
    /\ rowids_to_delete \subseteq OldMetrics
    /\ Cardinality(rowids_to_delete) =
          IF Cardinality(OldMetrics) < CLEANUP_BATCH_SIZE THEN Cardinality(OldMetrics)
          ELSE CLEANUP_BATCH_SIZE
    /\ metrics' = metrics \ rowids_to_delete
    /\ UNCHANGED <<now, n_ticks, agents, next_metric_id, alerts, latest_agent_snapshot,
                   req, n_reports, scan, cleanup, graph>>
    /\ UNCHANGED <<resp, interrupted, agentVars>>

\* cleanup_old_metrics: no row older than the cutoff is left
CleanupFinish ==
    /\ cleanup.pc = "batch"
    /\ OldMetrics = {}
    /\ cleanup' = IdleCleanup
    /\ UNCHANGED <<now, n_ticks, agents, metrics, next_metric_id, alerts, latest_agent_snapshot,
                   req, n_reports, scan, graph>>
    /\ UNCHANGED <<resp, interrupted, agentVars>>

\* GET /api/all_peer_flows
Query ==
    /\ graph' = [nodes |-> get_all_peer_flows(now, agents, metrics).nodes,
                 links |-> get_all_peer_flows(now, agents, metrics).links,
                 flip |-> 1 - graph.flip]
    /\ UNCHANGED <<now, n_ticks, agents, metrics, next_metric_id, alerts, latest_agent_snapshot,
                   req, n_reports, scan, cleanup>>
    /\ UNCHANGED <<resp, interrupted, agentVars>>

\* __main__: Ctrl+C ends app.run; check_agent_down_status and run_cleanup_scheduler are
\* daemon threads that loop on time.sleep and read no flag, so they run on until the
\* interpreter exits
CollectorInterrupt ==
    /\ ~interrupted
    /\ interrupted' = TRUE
    /\ UNCHANGED <<now, n_ticks, agents, metrics, next_metric_id, alerts, latest_agent_snapshot,
                   req, n_reports, scan, cleanup, graph, resp>>
    /\ UNCHANGED agentVars
\* ------------------------------------------------------------------------
\* Specifications
\* ------------------------------------------------------------------------
RemoteAddr == "10.0.0.9"

\* the threshold rules: reports of two hosts, evaluated as the clock advances
NextThreshold ==
    \/ Tick(60)
    \/ \E tpl \in ThresholdReports : Receive("r1", tpl, RemoteAddr)
    \/ Store("r1")
    \/ Snapshot("r1")
    \/ CheckAlerts("r1")

SpecThreshold == Init /\ [][NextThreshold]_vars

\* ingestion next to the liveness scanner thread
NextLiveness ==
    \/ Tick(STALE_THRESHOLD_SECONDS)
    \/ \E tpl \in LivenessReports : Receive("r1", tpl, RemoteAddr)
    \/ Store("r1")
    \/ Snapshot("r1")
    \/ CheckAlerts("r1")
    \/ ScanRead
    \/ ScanWrite

SpecLiveness == Init /\ [][NextLiveness]_vars

\* the scanner thread next to hosts that report or stop reporting
NextScanner ==
    \/ Tick(STALE_THRESHOLD_SECONDS)
    \/ \E tpl \in ScannerReports : Receive("r1", tpl, RemoteAddr)
    \/ Store("r1")
    \/ Snapshot("r1")
    \/ CheckAlerts("r1")
    \/ ScanRead
    \/ ScanWrite

\* check_agent_down_status is a daemon thread that sleeps, runs a pass and
\* sleeps again for as long as the collector runs
SpecScannerFair == Init /\ [][NextScanner]_vars /\ WF_vars(ScanRead) /\ WF_vars(ScanWrite)

\* the reachability rules: probes that fail or succeed, recent or old
NextPing ==
    \/ Tick(ALERT_PING_FAIL_THRESHOLD_MINUTES * 60)
    \/ \E tpl \in PingReports : Receive("r1", tpl, RemoteAddr)
    \/ Store("r1")
    \/ Snapshot("r1")
    \/ CheckAlerts("r1")

SpecPing == Init /\ [][NextPing]_vars

\* ingestion, the scanner and the retention cleanup over more than the horizon
NextRetention ==
    \/ Tick(DATA_RETENTION_DAYS * 24 * 60 * 60 + STALE_THRESHOLD_SECONDS)
    \/ \E tpl \in RetentionReports : Receive("r1", tpl, RemoteAddr)
    \/ Store("r1")
    \/ Snapshot("r1")
    \/ CheckAlerts("r1")
    \/ ScanRead
    \/ ScanWrite
    \/ CleanupStart
    \/ \E rowids_to_delete \in SUBSET metrics : CleanupBatch(rowids_to_delete)
    \/ CleanupFinish

SpecRetention == Init /\ [][NextRetention]_vars

\* ingestion of flow reports and the topology query
NextTopology ==
    \/ Tick(STALE_THRESHOLD_SECONDS)
    \/ \E tpl \in TopologyReports : Receive("r1", tpl, RemoteAddr)
    \/ Store("r1")
    \/ Snapshot("r1")
    \/ CheckAlerts("r1")
    \/ Query

SpecTopology == Init /\ [][NextTopology]_vars


\* ingestion on two request threads with malformed reports and with failures of
\* the storage layer, of the snapshot update and of the alert evaluation
NextIngest ==
    \/ Tick(60)
    \/ \E r \in Reqs, tpl \in IngestReports : Receive(r, tpl, RemoteAddr)
    \/ \E r \in Reqs : Store(r)
    \/ \E r \in Reqs, failed_at \in StoreFaults : StoreFail(r, failed_at)
    \/ \E r \in Reqs : Snapshot(r)
    \/ \E r \in Reqs : SnapshotFail(r)
    \/ \E r \in Reqs : CheckAlerts(r)
    \/ \E r \in Reqs : CheckAlertsFail(r)

SpecIngest == Init /\ [][NextIngest]_vars

\* the writers of the store next to each other: ingestion of a host whose address
\* changes, the scanner and the retention cleanup
NextRecords ==
    \/ Tick(DATA_RETENTION_DAYS * 24 * 60 * 60 + STALE_THRESHOLD_SECONDS)
    \/ \E tpl \in RecordReports : Receive("r1", tpl, RemoteAddr)
    \/ Store("r1")
    \/ Snapshot("r1")
    \/ CheckAlerts("r1")
    \/ ScanRead
    \/ ScanWrite
    \/ CleanupStart
    \/ \E rowids_to_delete \in SUBSET metrics : CleanupBatch(rowids_to_delete)
    \/ CleanupFinish

SpecRecords == Init /\ [][NextRecords]_vars

\* reports whose disks, interfaces and probe targets come and go
NextFrame ==
    \/ Tick(60)
    \/ \E tpl \in FrameReports : Receive("r1", tpl, RemoteAddr)
    \/ Store("r1")
    \/ Snapshot("r1")
    \/ CheckAlerts("r1")

SpecFrame == Init /\ [][NextFrame]_vars

\* two request threads that handle reports of the same host at the same time
NextConcurrent ==
    \/ Tick(60)
    \/ \E r \in Reqs, tpl \in ConcurrentReports : Receive(r, tpl, RemoteAddr)
    \/ \E r \in Reqs : Store(r)
    \/ \E r \in Reqs : Snapshot(r)
    \/ \E r \in Reqs : CheckAlertsBegin(r)
    \/ \E r \in Reqs : CheckAlertsWrite(r)

SpecConcurrent == Init /\ [][NextConcurrent]_vars
NextAgent ==
    \/ \E ips \in PeerResponses : RefreshPeers(ListResponse(ips))
    \/ \E src \in IPs, dst \in IPs, size \in PacketSizes : HandlerLockPeers(src, dst, size)
    \/ HandlerClassify
    \/ HandlerLockData
    \/ HandlerRead
    \/ HandlerWrite
    \/ ReportDrainLock(REPORT_INTERVAL_SECONDS)
    \/ ReportDrainCopy
    \/ ReportDrainClear
    \/ ReportSend(Some(NetBoot), Some(DiskBoot), "ok")

SpecAgent == Init /\ [][NextAgent]_vars

\* bytes of a classified packet that the handler has not yet stored
InFlight(k) ==
    IF h_pc \in {"want_data", "read", "write"} /\ k = <<h_pkt.src, h_pkt.dst>>
    THEN h_pkt.size ELSE 0

\* C1: for each flow key, bytes returned by all drains plus bytes held in the
\* accumulator (plus the packet being added) equal the sum of the sizes of all
\* packets classified for that key: no byte is lost or counted twice.
C1_DrainExactlyOnce ==
    \A k \in FlowKeys : drained[k] + peer_byte_counts[k] + InFlight(k) = classified[k]

\* C1 witness: a drain ran while the handler was in the middle of an increment,
\* and bytes of the same flow were drained and are again held.
C1_Witness ==
    \E k \in FlowKeys : drained[k] > 0 /\ peer_byte_counts[k] > 0 /\ h_pc = "want_data"
                        /\ r_pc = "send"

\* ------------------------------------------------------------------------
\* Specifications of the reporting loop
\* ------------------------------------------------------------------------
\* time.time() minus last_report_time after the wait: the interval, half of it,
\* or nothing or less when the wall clock was set back
TickElapsed == {-5, 0, 10, REPORT_INTERVAL_SECONDS}

\* the reporting loop alone, over counter readings that grow, restart or fail
NextRates ==
    \/ \E elapsed \in TickElapsed : ReportSkip(elapsed)
    \/ \E elapsed \in TickElapsed : ReportDrainLock(elapsed)
    \/ ReportDrainCopy
    \/ ReportDrainClear
    \/ \E net \in NetReadings, disk \in DiskReadings, outcome \in {"ok", "timeout"} :
          ReportSend(net, disk, outcome)

SpecRates == Init /\ [][NextRates]_vars

\* the reporting loop next to the packet handler, with sends that fail
NextDelivery ==
    \/ \E src \in {"10.0.0.1", "10.0.0.2"}, dst \in {"10.0.0.1", "10.0.0.2"} :
          HandlerLockPeers(src, dst, 1500)
    \/ HandlerClassify
    \/ HandlerLockData
    \/ HandlerRead
    \/ HandlerWrite
    \/ \E elapsed \in {-5, 0} : ReportSkip(elapsed)
    \/ ReportDrainLock(REPORT_INTERVAL_SECONDS)
    \/ ReportDrainCopy
    \/ ReportDrainClear
    \/ \E outcome \in SendOutcomes : ReportSend(Some(NetBoot), Some(DiskBoot), outcome)

SpecDelivery == Init /\ [][NextDelivery]_vars

\* peer directory answers: lists (one with an entry that is no address) and failures
PollResponses ==
    {ListResponse(ips) : ips \in PeerResponses \cup {{"10.0.0.1", "not-an-ip"}}}
    \cup {FailedResponse(kind) : kind \in PollFailures}

\* the peer refresh thread next to the packet handler
NextPeers ==
    \/ \E response \in PollResponses : RefreshPeers(response)
    \/ \E src \in IPs, dst \in IPs : HandlerLockPeers(src, dst, 60)
    \/ HandlerClassify
    \/ HandlerLockData
    \/ HandlerRead
    \/ HandlerWrite

SpecPeers == Init /\ [][NextPeers]_vars

\* main has fetched the peer list and is about to start its threads; the capture
\* library was imported or not
InitStartup ==
    /\ \E npcap \in BOOLEAN :
          AgentStart(npcap, IF npcap THEN "starting" ELSE "skipped", "startup", "not_started")
    /\ collector_ip = COLLECTOR_IP
    /\ last_net_counters = Some(NetBoot)
    /\ last_disk_counters = Some(DiskBoot)
    /\ InitColl

\* start-up and run of the agent with a sniffer that may fail at any time
NextCapture ==
    \/ MainStartupCheck
    \/ SnifferStarted
    \/ \E error \in SnifferErrors : SnifferFail(error)
    \/ HandlerLockPeers("10.0.0.1", "10.0.0.2", 1500)
    \/ HandlerClassify
    \/ HandlerLockData
    \/ HandlerRead
    \/ HandlerWrite
    \/ ReportDrainLock(REPORT_INTERVAL_SECONDS)
    \/ ReportNoCapture(REPORT_INTERVAL_SECONDS)
    \/ ReportDrainCopy
    \/ ReportDrainClear
    \/ ReportSend(Some(NetBoot), Some(DiskBoot), "ok")
    \/ ReportStop
    \/ \E ips \in PeerResponses : RefreshPeers(ListResponse(ips))
    \/ RefreshStop
    \/ PingLockPeers
    \/ PingReadPeers
    \/ \E target \in IPs : PingProbe(target, "success")
    \/ PingLockResults
    \/ PingStore
    \/ PingStop

SpecCapture == InitStartup /\ [][NextCapture]_vars

\* the periodic tasks of the agent and of the collector, each process receiving
\* its termination signal at any time; the collector's store is empty
NextShutdown ==
    \/ SignalStop
    \/ \E error \in SnifferErrors : SnifferFail(error)
    \/ SnifferStop
    \/ ReportDrainLock(REPORT_INTERVAL_SECONDS)
    \/ ReportDrainCopy
    \/ ReportDrainClear
    \/ ReportSend(Some(NetBoot), Some(DiskBoot), "ok")
    \/ ReportStop
    \/ \E ips \in PeerResponses : RefreshPeers(ListResponse(ips))
    \/ RefreshStop
    \/ PingLockPeers
    \/ PingReadPeers
    \/ \E target \in IPs : PingProbe(target, "success")
    \/ PingLockResults
    \/ PingStore
    \/ PingStop
    \/ CollectorInterrupt
    \/ ScanRead
    \/ ScanWrite
    \/ CleanupStart
    \/ CleanupFinish

SpecShutdown == Init /\ [][NextShutdown]_vars

\* ------------------------------------------------------------------------
\* Properties of the reporting loop
\* ------------------------------------------------------------------------
\* C12: a reporting tick whose elapsed time is below the 0.1 s floor sends no
\* report and leaves last_report_time, the stored network and disk counters and
\* the peer flow accumulator unchanged.
C12_NoiseFloorTickIsNoOp ==
    [][(r_pc = "wait" /\ r_time_delta' < MIN_TIME_DELTA
        /\ <<r_current_time, r_time_delta>>' # <<r_current_time, r_time_delta>>)
       => /\ r_pc' = "wait"
          /\ UNCHANGED <<n_posts, posted, r_payload, send_result>>
          /\ UNCHANGED <<last_report_time, last_net_counters, last_disk_counters>>
          /\ UNCHANGED <<peer_byte_counts, r_copy, drained>>]_vars

\* a tick was skipped after a report, with bytes waiting in the accumulator
C12_Witness ==
    /\ r_pc = "wait"
    /\ n_posts > 0
    /\ r_current_time < last_report_time
    /\ r_time_delta < MIN_TIME_DELTA
    /\ \E k \in FlowKeys : peer_byte_counts[k] > 0

\* the rates of a payload, the utilisation percentages left aside
Rates(p) ==
    {p.network.total.sent_Mbps, p.network.total.recv_Mbps, p.network.total.throughput_Mbps}
    \cup UNION {{p.network.interfaces[i].sent_Mbps, p.network.interfaces[i].recv_Mbps} :
                  i \in DOMAIN p.network.interfaces}
    \cup UNION {{p.disk_io[i].read_Bps, p.disk_io[i].write_Bps,
                 p.disk_io[i].read_ops_ps, p.disk_io[i].write_ops_ps} : i \in DOMAIN p.disk_io}
    \cup {p.peer_traffic[k].Mbps : k \in FlowKeys}

\* C13: in every report sent, a NIC or disk counter that is lower than the stored
\* previous value yields rate 0, and no per-source rate and no total is negative.
C13_ResetGivesZeroRate ==
    [][n_posts' # n_posts =>
         /\ \A x \in Rates(r_payload') : x >= 0
         /\ \A i \in DOMAIN r_payload'.network.interfaces :
               LET nic == NicNames[i]
                   cur == Val(last_net_counters')[nic]
                   prev == Val(last_net_counters)[nic]
               IN  /\ cur.bytes_sent < prev.bytes_sent
                        => r_payload'.network.interfaces[i].sent_Mbps = 0
                   /\ cur.bytes_recv < prev.bytes_recv
                        => r_payload'.network.interfaces[i].recv_Mbps = 0
         /\ \A i \in DOMAIN r_payload'.disk_io :
               LET cur == Val(last_disk_counters')[i]
                   prev == Val(last_disk_counters)[i]
               IN  /\ cur.read_bytes < prev.read_bytes => r_payload'.disk_io[i].read_Bps = 0
                   /\ cur.write_bytes < prev.write_bytes => r_payload'.disk_io[i].write_Bps = 0
                   /\ cur.read_count < prev.read_count => r_payload'.disk_io[i].read_ops_ps = 0
                   /\ cur.write_count < prev.write_count => r_payload'.disk_io[i].write_ops_ps = 0]_vars

\* the last report was computed from readings in which eth0's sent counter and
\* the disk's read counters had restarted while other counters had grown
C13_Witness ==
    /\ n_posts > 0
    /\ last_net_counters # Null /\ Val(last_net_counters).eth0.bytes_sent = 0
    /\ r_payload.network.total.recv_Mbps > 0
    /\ r_payload.network.total.sent_Mbps = 0
    /\ last_disk_counters # Null /\ Val(last_disk_counters)["sda"].read_bytes = 4096
    /\ "sda" \in DOMAIN r_payload.disk_io
    /\ r_payload.disk_io["sda"].write_Bps > 0
    /\ r_payload.disk_io["sda"].read_Bps = 0

\* bytes drained in the running tick and not yet handed to the transport
Pending(k) == IF r_pc = "send" THEN r_copy[k] ELSE 0

\* C17: every classified byte is handed to the transport at most once: each
\* report is posted one time with exactly the bytes drained in its own tick, and
\* after a failed post nothing is retried, kept or merged into a later report.
C17_AtMostOnceDelivery ==
    /\ [](\A k \in FlowKeys :
             posted[k] + Pending(k) + peer_byte_counts[k] + InFlight(k) = classified[k])
    /\ [][r_pc = "send" /\ r_pc' # "send" =>
             /\ n_posts' = n_posts + 1
             /\ \A k \in FlowKeys : r_payload'.peer_traffic[k].bytes = r_copy[k]
             /\ r_copy' = ZeroCounts
             /\ peer_byte_counts' = peer_byte_counts
             /\ last_report_time' = r_current_time
             /\ r_pc' = "wait"]_vars

\* a post failed, its bytes are gone and the accumulator holds newer bytes of
\* the same flow for the next report
C17_Witness ==
    /\ send_result \in SendOutcomes \ {"ok"}
    /\ r_pc = "wait"
    /\ \E k \in FlowKeys : /\ posted[k] > 0
                           /\ r_payload.peer_traffic[k].bytes > 0
                           /\ peer_byte_counts[k] > 0

\* C20: a peer-directory poll that fails or returns something that is no list
\* leaves the known-peer set as it was; the set changes only in a poll that
\* succeeded, and then to the well-formed entries of the list received.
C20_FailedPollKeepsPeers ==
    [][/\ \A response \in PollResponses :
             (response.kind # "list" /\ RefreshPeers(response))
             => current_peer_ips' = current_peer_ips
       /\ current_peer_ips' # current_peer_ips
             => /\ poll_result' = "ok"
                /\ \E response \in PollResponses :
                      /\ response.kind = "list"
                      /\ current_peer_ips' = {ip \in response.ips_list : ip \in WellFormedIPs}]_vars

\* a poll failed after an earlier poll had replaced the initial set
C20_Witness ==
    /\ poll_result \in PollFailures
    /\ current_peer_ips = {"10.0.0.1"}

\* peer-traffic capture is off: never started, or sniff() raised
CaptureDisabled == s_pc \in SnifferErrors \cup {"skipped"}

\* C18: when the capture subsystem cannot start or fails, only peer-traffic
\* capture is off: the stop event is not set by it, the reporting loop, the peer
\* refresh and the probing are not stopped, and the reports that follow carry an
\* empty peer_traffic section.
C18_CaptureFailureKeepsReporting ==
    /\ [](CaptureDisabled =>
             /\ ~stop_event
             /\ r_pc \notin {"exited", "stopped"}
             /\ f_pc # "stopped"
             /\ p_pc # "stopped")
    /\ [][(CaptureDisabled /\ r_pc = "wait" /\ r_pc' # "wait")
             => (r_pc' = "send" /\ r_copy' = ZeroCounts)]_vars

\* the part of C18 that the code provides: without the capture library the
\* sniffer thread is not started and every report carries no peer traffic
CaptureSkippedKeepsReporting ==
    /\ [](s_pc = "skipped" => ~stop_event /\ r_pc \notin {"exited", "stopped"})
    /\ [][s_pc = "skipped" /\ n_posts' # n_posts =>
             \A k \in FlowKeys : r_payload'.peer_traffic[k].bytes = 0]_vars

\* once stop_event is set, the reporting loop, the peer refresh and the probe
\* thread of the agent start no new cycle: each may only finish the running one
\* or stop
AgentTasksStopAtSignal ==
    [][stop_event =>
          /\ r_pc = "wait" => r_pc' \in {"wait", "stopped", "exited"}
          /\ UNCHANGED <<current_peer_ips, poll_result, n_rounds>>
          /\ f_pc' \in {f_pc, "stopped"}
          /\ p_pc = "wait" => p_pc' \in {"wait", "stopped"}]_vars

\* C19: once the cancellation signal of a process is set, each of its periodic
\* tasks (agent: peer refresh, probe rounds, reporting loop; collector: liveness
\* scanner, retention cleanup scheduler) starts no new cycle.
C19_TasksStopAtSignal ==
    [][/\ stop_event =>
             /\ r_pc = "wait" => r_pc' \in {"wait", "stopped", "exited"}
             /\ UNCHANGED <<current_peer_ips, poll_result, n_rounds>>
             /\ f_pc' \in {f_pc, "stopped"}
             /\ p_pc = "wait" => p_pc' \in {"wait", "stopped"}
       /\ interrupted =>
             /\ scan.pc = "sleep" => scan'.pc = "sleep"
             /\ cleanup.pc = "idle" => cleanup'.pc = "idle"]_vars

\* ------------------------------------------------------------------------
\* Specification and properties of the probe thread
\* ------------------------------------------------------------------------
\* the agent runs on a host of its own or on the collector's host
InitProbe ==
    /\ AgentStart(TRUE, "sniffing", "wait", "wait")
    /\ collector_ip \in {COLLECTOR_IP, AGENT_IP}
    /\ last_net_counters = Some(NetBoot)
    /\ last_disk_counters = Some(DiskBoot)
    /\ InitColl

\* probe rounds next to a peer set that changes, reports being sent and the
\* termination signal arriving at any time
NextProbe ==
    \/ \E ips \in PeerResponses : RefreshPeers(ListResponse(ips))
    \/ PingLockPeers
    \/ PingReadPeers
    \/ \E target \in IPs, status \in PingStatuses : PingProbe(target, status)
    \/ PingLockResults
    \/ PingStore
    \/ PingStop
    \/ ReportDrainLock(REPORT_INTERVAL_SECONDS)
    \/ ReportDrainCopy
    \/ ReportDrainClear
    \/ ReportSend(Some(NetBoot), Some(DiskBoot), "ok")
    \/ SignalStop

SpecProbe == InitProbe /\ [][NextProbe]_vars

\* C21: when a probe round ends by storing its results, the stored results have
\* one entry for each target probed in that round, holding that round's result,
\* and no entry of an earlier round; at least one target was probed, and a round
\* not cut short by the stop event has left no target unprobed.
C21_RoundReplacesResults ==
    [][(p_pc = "store" /\ p_pc' # "store")
          => /\ DOMAIN latest_ping_results' = probed
             /\ \A target \in probed : latest_ping_results'[target] = results_this_round[target]
             /\ probed # {}
             /\ ~stop_event => targets_to_ping = {}]_vars

\* a round over the collector alone has been stored after a report had carried
\* the result of a peer probed in an earlier round
C21_Witness ==
    /\ p_pc = "wait"
    /\ DOMAIN latest_ping_results = {COLLECTOR_IP}
    /\ "10.0.0.2" \in DOMAIN r_payload.ping_results

\* C22: once a target has left the probe target set, the next probe-timer tick
\* removes its entry: after every tick of the probe thread, whether the round
\* was run or skipped, the stored results (which every later report copies) hold
\* entries of targets of that tick only.
C22_DepartedTargetDisappears ==
    [][/\ (p_pc = "targets" /\ p_pc' = "wait")
             => DOMAIN latest_ping_results'
                   \subseteq select_targets(current_peer_ips, collector_ip, AGENT_IP)
       /\ (p_pc = "store" /\ p_pc' = "wait")
             => DOMAIN latest_ping_results' \subseteq probed \cup targets_to_ping]_vars

\* the part of C22 that the code provides: while the collector is another host
\* the target set is never empty and every tick replaces the stored results
DepartedTargetDisappearsWithRemoteCollector ==
    [][collector_ip # AGENT_IP =>
          /\ (p_pc = "targets" /\ p_pc' = "wait")
                => DOMAIN latest_ping_results'
                      \subseteq select_targets(current_peer_ips, collector_ip, AGENT_IP)
          /\ (p_pc = "store" /\ p_pc' = "wait")
                => DOMAIN latest_ping_results' \subseteq probed \cup targets_to_ping]_vars

\* ------------------------------------------------------------------------
\* Properties of the packet handler and of the locks
\* ------------------------------------------------------------------------
\* the handler is between its classification and the end of its increment
Counting == {"want_data", "read", "write"}

\* C25: the handler goes on to the increment iff source and destination of the
\* packet are both in the known-peer set at the step that reads the set under
\* peer_ip_lock; the increment adds the packet's size to the entry of (src, dst)
\* and to no other; nothing else changes the accumulator, so a packet with an
\* endpoint outside the set, or seen while the set is empty, leaves it as it was.
C25_CountedIffBothEndpointsKnown ==
    [][/\ (h_pc = "classify" /\ h_pc' # "classify")
             => IF h_pkt.src \in current_peer_ips /\ h_pkt.dst \in current_peer_ips
                THEN h_pc' = "want_data" /\ h_pkt' = h_pkt
                ELSE h_pc' = "idle" /\ peer_byte_counts' = peer_byte_counts
       /\ (h_pc' \in Counting /\ h_pc \notin Counting) => h_pc = "classify"
       /\ (h_pc = "write" /\ h_pc' # "write")
             => peer_byte_counts' =
                   [peer_byte_counts EXCEPT ![<<h_pkt.src, h_pkt.dst>>] = @ + h_pkt.size]
       /\ peer_byte_counts' # peer_byte_counts => h_pc = "write"]_vars

\* one packet between two peers has been counted, the others were ignored, and
\* the peer set has shrunk since
C25_Witness ==
    /\ h_pc = "idle"
    /\ n_packets = MaxPackets
    /\ current_peer_ips = {"10.0.0.1"}
    /\ \A k \in FlowKeys :
          peer_byte_counts[k] = IF k = <<"10.0.0.1", "10.0.0.2">> THEN 60 ELSE 0

\* the four threads of the agent that take locks, next to each other
NextLocks ==
    \/ \E ips \in PeerResponses : RefreshPeers(ListResponse(ips))
    \/ HandlerLockPeers("10.0.0.1", "10.0.0.2", 1500)
    \/ HandlerClassify
    \/ HandlerLockData
    \/ HandlerRead
    \/ HandlerWrite
    \/ PingLockPeers
    \/ PingReadPeers
    \/ \E target \in IPs : PingProbe(target, "success")
    \/ PingLockResults
    \/ PingStore
    \/ ReportDrainLock(REPORT_INTERVAL_SECONDS)
    \/ ReportDrainCopy
    \/ ReportDrainClear
    \/ ReportSend(Some(NetBoot), Some(DiskBoot), "ok")

SpecLocks == Init /\ [][NextLocks]_vars

\* threads that hold a lock over more than one step
LockHolders == {"sniffer", "pinger", "reporter"}

\* the locks thread t holds
Held(t) ==
    (IF peer_ip_lock = t THEN {"peer_ip_lock"} ELSE {})
    \cup (IF peer_data_lock = t THEN {"peer_data_lock"} ELSE {})
    \cup (IF ping_results_lock = t THEN {"ping_results_lock"} ELSE {})

\* C26: no thread holds two of the three locks at once, and whoever holds a lock
\* can take the step that releases it (or the step before it) without waiting
\* for another lock, so no set of threads waits for each other.
C26_OneLockAtATime ==
    /\ \A t \in LockHolders : Cardinality(Held(t)) <= 1
    /\ peer_ip_lock = "sniffer" => ENABLED HandlerClassify
    /\ peer_ip_lock = "pinger" => ENABLED PingReadPeers
    /\ peer_data_lock = "sniffer" => ENABLED HandlerRead \/ ENABLED HandlerWrite
    /\ peer_data_lock = "reporter" => ENABLED ReportDrainCopy \/ ENABLED ReportDrainClear
    /\ ping_results_lock = "pinger" => ENABLED PingStore
    /\ h_pc = "want_data" => peer_ip_lock # "sniffer"

\* the three locks are held at once, by three threads
C26_Witness ==
    /\ peer_ip_lock = "sniffer"
    /\ peer_data_lock = "reporter"
    /\ ping_results_lock = "pinger"

\* ------------------------------------------------------------------------
\* Properties of the reporting loop, continued
\* ------------------------------------------------------------------------
\* C27: the reference time from which a tick measures its elapsed time is the
\* time of the last report that was delivered: a tick whose post failed leaves
\* last_report_time as it was, and a tick whose post succeeded sets it to the
\* tick's own time.
C27_FailedSendKeepsReferenceTime ==
    [][(r_pc = "send" /\ r_pc' # "send")
          => last_report_time' = IF send_result' = "ok" THEN r_current_time
                                 ELSE last_report_time]_vars

\* C28: in a report computed from a current and a previous reading, every
\* monitored interface has its entry in the interface map with its own status,
\* also when it is down, and the totals are sums over the interfaces that are up.
C28_DownInterfacesReported ==
    [][\A net \in NetReadings, disk \in DiskReadings, outcome \in SendOutcomes :
          (ReportSend(net, disk, outcome) /\ net # Null /\ last_net_counters # Null)
          => /\ \A i \in DOMAIN NicNames :
                   /\ i \in DOMAIN r_payload'.network.interfaces
                   /\ r_payload'.network.interfaces[i].is_up = Val(net)[NicNames[i]].isup
             /\ r_payload'.network.total.sent_Mbps =
                   to_Mbps(total_delta(Val(net), Val(last_net_counters), "bytes_sent"),
                           r_time_delta)]_vars

\* the part of C28 that the code provides: the interface map holds the
\* interfaces that are up and no other, and the totals are sums over them
DownInterfacesLeftOut ==
    [][\A net \in NetReadings, disk \in DiskReadings, outcome \in SendOutcomes :
          (ReportSend(net, disk, outcome) /\ net # Null /\ last_net_counters # Null)
          => /\ DOMAIN r_payload'.network.interfaces =
                   {i \in DOMAIN NicNames : Val(net)[NicNames[i]].isup}
             /\ \A i \in DOMAIN r_payload'.network.interfaces :
                   r_payload'.network.interfaces[i].is_up
             /\ r_payload'.network.total.sent_Mbps =
                   to_Mbps(total_delta(Val(net), Val(last_net_counters), "bytes_sent"),
                           r_time_delta)]_vars

\* ------------------------------------------------------------------------
\* The first observation of an interface or a disk
\* ------------------------------------------------------------------------
\* the counters read before the loop: both reads succeed, the disk read raises
\* after the interface read, or the interface read raises and both stay empty
InitialCounters ==
    {<<net, disk>> : net \in PartialNetReadings \ {Null}, disk \in {Some(DiskBoot), Null}}
    \cup {<<Null, Null>>}

InitBaseline ==
    /\ AgentStart(TRUE, "sniffing", "wait", "wait")
    /\ collector_ip = COLLECTOR_IP
    /\ \E initial \in InitialCounters :
          last_net_counters = initial[1] /\ last_disk_counters = initial[2]
    /\ InitColl

\* the reporting loop over readings in which interfaces and disks come and go
NextBaseline ==
    \/ \E elapsed \in TickElapsed : ReportSkip(elapsed)
    \/ \E elapsed \in TickElapsed : ReportDrainLock(elapsed)
    \/ ReportDrainCopy
    \/ ReportDrainClear
    \/ \E net \in PartialNetReadings, disk \in PartialDiskReadings, outcome \in {"ok", "timeout"} :
          ReportSend(net, disk, outcome)

SpecBaseline == InitBaseline /\ [][NextBaseline]_vars

\* the sample of a source stored at an earlier tick, if there is one
stored_sample(last, source) == last # Null /\ source \in DOMAIN Val(last)

\* C29: a report carries a rate record of an interface or of a disk only if a
\* counter sample of that same source was stored before the tick; an interface
\* or disk seen for the first time gets no record, and its sample is stored as
\* the baseline of the next tick.
C29_FirstObservationIsBaseline ==
    [][n_posts' # n_posts =>
         /\ \A i \in DOMAIN r_payload'.network.interfaces :
               stored_sample(last_net_counters, NicNames[i])
         /\ \A disk \in DOMAIN r_payload'.disk_io :
               stored_sample(last_disk_counters, disk)
         /\ ~stored_sample(last_net_counters, "eth1")
               /\ stored_sample(last_net_counters', "eth1")
               => last_net_counters' \in PartialNetReadings
                  /\ \A i \in DOMAIN r_payload'.network.interfaces : NicNames[i] # "eth1"
         /\ ~stored_sample(last_disk_counters, "sdb")
               /\ stored_sample(last_disk_counters', "sdb")
               => last_disk_counters' \in PartialDiskReadings
                  /\ "sdb" \notin DOMAIN r_payload'.disk_io]_vars

\* a report that has rates of eth0 and sda, which had a stored sample, and none of
\* eth1 and sdb, which were read for the first time at that tick and are stored
C29_Witness ==
    /\ n_posts > 0
    /\ DOMAIN r_payload.network.interfaces = {1}
    /\ DOMAIN r_payload.disk_io = {"sda"}
    /\ stored_sample(last_net_counters, "eth1")
    /\ stored_sample(last_disk_counters, "sdb")

\* ------------------------------------------------------------------------
\* The period a counter delta covers
\* ------------------------------------------------------------------------
\* the OS counters at instant t under steady traffic: eth0 sends 131072 bytes and
\* the disk reads 4096 bytes per tenth of a second
NetAt(t) ==
    [eth0 |-> NicCounters(1048576 + 131072 * t, 1048576 + 65536 * t, TRUE, 1000),
     eth1 |-> NicCounters(524288, 524288, TRUE, 0)]
DiskAt(t) == "sda" :> DiskCounters(102400 + 4096 * t, 102400, 100 + t, 100)

InitSampling ==
    /\ AgentStart(TRUE, "sniffing", "wait", "wait")
    /\ collector_ip = COLLECTOR_IP
    /\ last_net_counters = Some(NetAt(0))
    /\ last_disk_counters = Some(DiskAt(0))
    /\ InitColl

\* the reporting loop over readings taken at the instant of the tick, each of
\* which may raise
NextSampling ==
    \/ \E elapsed \in TickElapsed : ReportSkip(elapsed)
    \/ \E elapsed \in TickElapsed : ReportDrainLock(elapsed)
    \/ ReportDrainCopy
    \/ ReportDrainClear
    \/ \E net \in {Some(NetAt(r_current_time)), Null},
          disk \in {Some(DiskAt(r_current_time)), Null},
          outcome \in {"ok", "timeout"} :
          ReportSend(net, disk, outcome)

SpecSampling == InitSampling /\ [][NextSampling]_vars

\* C40: every per-NIC and per-disk rate of an emitted report is computed from the
\* counter delta accumulated over exactly the period of its interval_sec, and
\* whenever last_report_time is advanced the stored previous counters are the ones
\* sampled in that same tick, also after a tick in which reading them failed.
C40_DeltaCoversReportInterval ==
    [][n_posts' # n_posts =>
         LET interval == r_payload'.interval_sec
             since == last_report_time' - interval
         IN  /\ last_net_counters' = Some(NetAt(last_report_time'))
             /\ last_disk_counters' = Some(DiskAt(last_report_time'))
             /\ \A i \in DOMAIN r_payload'.network.interfaces :
                   r_payload'.network.interfaces[i] =
                       network_data(Some(NetAt(last_report_time')), Some(NetAt(since)),
                                    interval).interfaces[i]
             /\ \A disk \in DOMAIN r_payload'.disk_io :
                   r_payload'.disk_io[disk] =
                       disk_io_rates(Some(DiskAt(last_report_time')), Some(DiskAt(since)),
                                     interval)[disk]]_vars

\* a tick whose readings succeed stores them; a tick whose reading raised keeps
\* the sample of an earlier instant
StoredSampleIsOfSomeTick ==
    /\ [](\E t \in 0..MaxClock : t <= last_report_time /\ last_net_counters = Some(NetAt(t)))
    /\ [](\E t \in 0..MaxClock : t <= last_report_time /\ last_disk_counters = Some(DiskAt(t)))

\* the rates of a report whose stored samples were taken at last_report_time
\* cover exactly the interval of the report
RatesOverIntervalAfterGoodReads ==
    [][/\ n_posts' # n_posts
       /\ last_net_counters = Some(NetAt(last_report_time))
       /\ last_disk_counters = Some(DiskAt(last_report_time))
       => LET interval == r_payload'.interval_sec
              since == last_report_time' - interval
          IN  /\ r_payload'.network \in
                     {EmptyNetworkData,
                      network_data(Some(NetAt(last_report_time')), Some(NetAt(since)),
                                   interval)}
              /\ r_payload'.disk_io \in
                     {NoDiskRates,
                      disk_io_rates(Some(DiskAt(last_report_time')), Some(DiskAt(since)),
                                    interval)}]_vars

\* ------------------------------------------------------------------------
\* Properties of the alert engine
\* ------------------------------------------------------------------------
\* the step in which the alerts of the report in flight are evaluated
Evaluating == req["r1"].pc = "alerts" /\ req'["r1"].pc = "idle"

RowOf(tbl, key) == tbl[CHOOSE i \in DOMAIN tbl : tbl[i].alert_key = key]

\* the threshold rules of a report: the key of each and whether its value breaches
ThresholdRules(h, p) ==
    {[key |-> generate_alert_key(h, CPU_HIGH, <<>>),
      holds |-> p.cpu # Null /\ Val(p.cpu) >= ALERT_CPU_THRESHOLD],
     [key |-> generate_alert_key(h, MEM_HIGH, <<>>),
      holds |-> p.memory # Null /\ Val(p.memory) >= ALERT_MEM_THRESHOLD]}
    \cup {[key |-> generate_alert_key(h, DISK_HIGH, d.name),
           holds |-> d.percent # Null /\ Val(d.percent) >= ALERT_DISK_THRESHOLD] :
            d \in SeqRange(p.disk_usage)}
    \cup {[key |-> generate_alert_key(h, NET_CHOKED, a.name),
           holds |-> a.is_up /\ Max2(a.sent_percent_of_link, a.recv_percent_of_link)
                                    >= NETWORK_CHOKE_THRESHOLD_PERCENT] :
            a \in SeqRange(p.interfaces)}

\* C2: after each evaluation of a report, the alert of every threshold rule
\* (cpu_high, mem_high, disk_high per disk, net_choked per interface) of the
\* reporting host is active iff the rule's predicate held on that report; so
\* it becomes active on the first breach, resolved on the first report that
\* does not breach, and flapping input cycles on the same key.
C2_ActiveIffBreach ==
    [][Evaluating =>
         \A rule \in ThresholdRules(req["r1"].hostname, req["r1"].payload) :
             IsActive(alerts', rule.key) <=> rule.holds]_vars

\* C2 witness: the CPU alert of h1 went active and was resolved by a later
\* report, and a report that breaches again is about to be evaluated.
C2_Witness ==
    /\ \E i \in DOMAIN alerts :
          /\ alerts[i].alert_key = generate_alert_key(H1, CPU_HIGH, <<>>)
          /\ alerts[i].status = "resolved"
          /\ Val(alerts[i].resolved_unix) > alerts[i].first_triggered_unix
    /\ req["r1"].pc = "alerts"
    /\ req["r1"].hostname = H1
    /\ Val(req["r1"].payload.cpu) >= ALERT_CPU_THRESHOLD

\* C3: the alert store holds at most one row per alert key, whatever reports
\* were ingested and whatever scanner passes ran, in whatever interleaving.
C3_OneRowPerKey ==
    \A i, j \in DOMAIN alerts : alerts[i].alert_key = alerts[j].alert_key => i = j

\* C3 witness: the scanner opened agent_down for h1, a report closed it, and
\* the CPU alert of h1 was written again after it was first opened.
C3_Witness ==
    /\ \E i \in DOMAIN alerts :
          /\ alerts[i].alert_key = generate_alert_key(H1, AGENT_DOWN, <<>>)
          /\ alerts[i].status = "resolved"
    /\ \E i \in DOMAIN alerts :
          /\ alerts[i].alert_key = generate_alert_key(H1, CPU_HIGH, <<>>)
          /\ alerts[i].status = "active"
          /\ alerts[i].last_active_unix > alerts[i].first_triggered_unix

\* C4: every evaluated report on which a threshold rule's predicate holds
\* leaves the row of that key with last-active time equal to the time of the
\* evaluation, whether the alert was absent, resolved or already active.
C4_LastActiveRefreshed ==
    [][Evaluating =>
         \A rule \in ThresholdRules(req["r1"].hostname, req["r1"].payload) :
             rule.holds => /\ HasRow(alerts', rule.key)
                           /\ RowOf(alerts', rule.key).last_active_unix = now]_vars

PingWindow == ALERT_PING_FAIL_THRESHOLD_MINUTES * 60
Failure(p) == p.status \in {"timeout", "error"}
PingFailKey(h, p) == generate_alert_key(h, PING_FAIL, p.target)

\* C5: with no active ping_fail alert for (host, target), evaluating a report
\* whose probe of the target failed with a timestamp older than now minus the
\* persistence window leaves no active ping_fail alert for the key, and one
\* whose failure timestamp lies within the window makes the alert active.
C5_FirstFailureInWindowOpens ==
    [][Evaluating =>
         \A p \in SeqRange(req["r1"].payload.ping_results) :
             (/\ Failure(p)
              /\ p.timestamp # Null
              /\ ~IsActive(alerts, PingFailKey(req["r1"].hostname, p)))
             => /\ Val(p.timestamp) < now - PingWindow
                      => ~IsActive(alerts', PingFailKey(req["r1"].hostname, p))
                /\ Val(p.timestamp) > now - PingWindow
                      => IsActive(alerts', PingFailKey(req["r1"].hostname, p))]_vars

\* C5 witness: a ping_fail alert of h1 is active, opened by a failure inside
\* the window that a report after the first one carried.
C5_Witness ==
    /\ \E i \in DOMAIN alerts :
          /\ alerts[i].alert_key = generate_alert_key(H1, PING_FAIL, <<"10.0.0.2">>)
          /\ alerts[i].status = "active"
          /\ alerts[i].first_triggered_unix > StartTime
    /\ n_reports >= 2

\* C6: after a report is evaluated, the ping_fail alert of (host, target) is
\* active iff the report's probe of the target is a failure and either the
\* alert was active before the evaluation or the failure timestamp lies within
\* the persistence window.
C6_ActiveWhileFailing ==
    [][Evaluating =>
         \A p \in SeqRange(req["r1"].payload.ping_results) :
             IsActive(alerts', PingFailKey(req["r1"].hostname, p))
             <=> /\ Failure(p)
                 /\ \/ IsActive(alerts, PingFailKey(req["r1"].hostname, p))
                    \/ p.timestamp # Null /\ Val(p.timestamp) > now - PingWindow]_vars

\* the step in which a scanner pass writes its alerts
ScanPass == scan.pc = "write" /\ scan'.pc = "sleep"

AgentDownKey(h) == generate_alert_key(h, AGENT_DOWN, <<>>)

\* host h has a last-seen time, and it is longer ago than the down-threshold
HostDown(h) ==
    \E i \in DOMAIN agents :
        /\ agents[i].hostname = h
        /\ agents[i].last_seen # Null
        /\ now - Val(agents[i].last_seen) > 2 * STALE_THRESHOLD_SECONDS

\* C7: a scanner pass that observes now - last_seen above twice the staleness
\* threshold leaves an active agent_down alert for the host, a pass that
\* observes it at or below never creates or activates one, and a host that
\* stops reporting eventually has an active agent_down alert (or reports again).
C7_ScannerOpensAgentDown ==
    /\ [][ScanPass =>
            \A i \in DOMAIN scan.all_agents :
               LET a == scan.all_agents[i]
               IN  a.last_seen # Null =>
                     IF scan.now - Val(a.last_seen) > 2 * STALE_THRESHOLD_SECONDS
                     THEN IsActive(alerts', AgentDownKey(a.hostname))
                     ELSE /\ IsActive(alerts', AgentDownKey(a.hostname))
                               => IsActive(alerts, AgentDownKey(a.hostname))
                          /\ HasRow(alerts', AgentDownKey(a.hostname))
                               => HasRow(alerts, AgentDownKey(a.hostname))]_vars
    /\ \A h \in {H1, H2} :
          HostDown(h) ~> (IsActive(alerts, AgentDownKey(h)) \/ ~HostDown(h))

\* C7 witness: a pass has opened agent_down for h1, whose last report is older
\* than the down-threshold, while h2 reported recently and has no such alert.
C7_Witness ==
    /\ IsActive(alerts, AgentDownKey(H1))
    /\ HostDown(H1)
    /\ \E i \in DOMAIN agents : agents[i].hostname = H2
    /\ ~HostDown(H2)
    /\ ~HasRow(alerts, AgentDownKey(H2))
    /\ scan.pc = "sleep"

C9_AlertRowsPersist ==
    [][\A i \in DOMAIN alerts : HasRow(alerts', alerts[i].alert_key)]_vars

\* C9 witness: an alert row resolved by a report is still held after the
\* retention cleanup deleted every metric row of the host and finished.
C9_Witness ==
    /\ \E i \in DOMAIN alerts : alerts[i].status = "resolved"
    /\ next_metric_id > 1
    /\ metrics = {}
    /\ cleanup.pc = "idle"
    /\ now - StartTime > DATA_RETENTION_DAYS * 24 * 60 * 60

\* ------------------------------------------------------------------------
\* Properties of the topology query
\* ------------------------------------------------------------------------
\* addresses of the hosts whose last-seen is within the staleness threshold
ActiveIPs ==
    {agents[i].agent_ip : i \in {j \in DOMAIN agents :
        agents[j].last_seen # Null /\ now - Val(agents[j].last_seen) <= STALE_THRESHOLD_SECONDS}}

\* flows carried by the latest stored report of an active host
ReportedFlows ==
    UNION {SeqRange(m.peer_traffic) :
             m \in {x \in metrics :
                      /\ \E i \in DOMAIN agents :
                            /\ agents[i].hostname = x.hostname
                            /\ agents[i].agent_ip \in ActiveIPs
                            /\ Val(agents[i].last_seen) = x.timestamp_unix}}

\* C10: in the output of the topology query a peer-traffic edge from A to B is
\* present iff the flow is reported and both A and B are addresses of hosts
\* whose last-seen is within the staleness threshold at query time.
C10_EdgeIffBothActive ==
    [][graph'.flip # graph.flip =>
         \A A \in WellFormedIPs, B \in WellFormedIPs :
            (\E l \in graph'.links : l.source = A /\ l.target = B)
            <=> /\ A \in ActiveIPs
                /\ B \in ActiveIPs
                /\ \E f \in ReportedFlows : f.key = <<A, "_to_", B>>]_vars

\* C11: the node set returned by the topology query is exactly the collector
\* plus the addresses of the hosts whose last-seen is within the staleness
\* threshold; a reported flow naming an address of no active host adds neither
\* a node nor an edge.
C11_NodesAreCollectorAndActiveHosts ==
    [][graph'.flip # graph.flip =>
         /\ graph'.nodes = {COLLECTOR_ID_FOR_GRAPH} \cup ActiveIPs
         /\ \A l \in graph'.links :
               l.source \in ActiveIPs /\ l.target \in ActiveIPs]_vars

\* ------------------------------------------------------------------------
\* Properties of ingestion under malformed input and failures
\* ------------------------------------------------------------------------
\* C14: a report whose agent_ip is not a well-formed IP address is answered with
\* a client error and leaves the agent records, metric points, snapshot entries
\* and alert states of every host as they were.
C14_MalformedIPRejected ==
    [][\A r \in Reqs, tpl \in IngestReports :
          (tpl.agent_ip \in MalformedIPs /\ Receive(r, tpl, RemoteAddr))
          => /\ resp'[r].status = 400
             /\ req'[r].pc = "idle"
             /\ UNCHANGED <<agents, metrics, latest_agent_snapshot, alerts>>]_vars

\* a malformed report was rejected while another host is on record
C14_Witness ==
    /\ resp["r1"].status = 400
    /\ \E i \in DOMAIN agents : agents[i].hostname = H2
    /\ latest_agent_snapshot # <<>>

\* C15: when the storage layer fails in the agent upsert or the metric insert,
\* the request is answered with a server error, neither the agent record change
\* nor the metric point persists, the snapshot entry is not overwritten and no
\* alert rule is evaluated for the report.
C15_StorageFailureIsAtomic ==
    [][\A r \in Reqs :
          (req[r].pc = "store" /\ req'[r].pc # "snapshot" /\ req'[r] # req[r])
          => /\ req'[r].pc = "idle"
             /\ resp'[r].status = 500
             /\ UNCHANGED <<agents, metrics, latest_agent_snapshot, alerts>>]_vars

\* a storage failure was answered while the failing host already had a record
\* that the aborted upsert would have refreshed
C15_Witness ==
    /\ resp["r1"] = Response(500, {"database"})
    /\ req["r1"].pc = "idle"
    /\ \E i \in DOMAIN agents : agents[i].hostname = H2 /\ Val(agents[i].last_seen) < now

\* C16: when the snapshot update or the alert evaluation fails after the commit,
\* the request is still answered with success and the committed agent record
\* and metric point are in storage.
C16_LateFailureKeepsSuccess ==
    [][\A r \in Reqs :
          (req[r].pc = "alerts" /\ req'[r].pc = "idle" /\ resp'[r].logged # {})
          => /\ resp'[r].status = 200
             /\ \E m \in metrics' : /\ m.hostname = req[r].hostname
                                    /\ m.timestamp_unix = req[r].current_time_unix
             /\ \E i \in DOMAIN agents' : /\ agents'[i].hostname = req[r].hostname
                                          /\ agents'[i].last_seen # Null
             /\ UNCHANGED <<agents, metrics>>]_vars

\* a request whose snapshot update failed has been answered
C16_Witness ==
    /\ req["r1"].pc = "idle"
    /\ resp["r1"].status = 200
    /\ "snapshot" \in resp["r1"].logged

\* ------------------------------------------------------------------------
\* Properties of the stored records and of the topology query, continued
\* ------------------------------------------------------------------------
\* simple_ui_collector.cs.py: GRAPH_LINK_MBPS_THRESHOLD = 0.05, in thousandths of a Mbps
GRAPH_LINK_MBPS_THRESHOLD == 50

\* C23: every peer-traffic edge in the output of the topology query has a rate
\* of at least the minimum link rate.
C23_EdgesAtLeastMinimumRate ==
    [][graph'.flip # graph.flip =>
         \A l \in graph'.links : l.rate_mbps >= GRAPH_LINK_MBPS_THRESHOLD]_vars

\* the row of a hostname in table agents
AgentRows(tbl, hostname) == {i \in DOMAIN tbl : tbl[i].hostname = hostname}

\* C24: the agent record of a hostname is created by the first report of that
\* hostname that is stored, and by nothing else; no step of ingestion, of the
\* scanner or of the cleanup removes a record or changes its first_seen; every
\* later report that is stored overwrites agent_ip and last_seen of the record.
C24_AgentRecordLifecycle ==
    [][/\ \A i \in DOMAIN agents :
             /\ i \in DOMAIN agents'
             /\ agents'[i].hostname = agents[i].hostname
             /\ agents'[i].first_seen = agents[i].first_seen
       /\ \A i \in DOMAIN agents' \ DOMAIN agents :
             \E r \in Reqs :
                /\ req[r].pc = "store" /\ req'[r].pc = "snapshot"
                /\ agents'[i].hostname = req[r].hostname
                /\ AgentRows(agents, req[r].hostname) = {}
                /\ agents'[i].first_seen = Some(req[r].current_time_unix)
       /\ \A r \in Reqs :
             (req[r].pc = "store" /\ req'[r].pc = "snapshot")
             => /\ Cardinality(AgentRows(agents', req[r].hostname)) = 1
                /\ \A i \in AgentRows(agents', req[r].hostname) :
                      /\ agents'[i].agent_ip = req[r].agent_ip
                      /\ agents'[i].last_seen = Some(req[r].current_time_unix)
       /\ agents' # agents => \E r \in Reqs : req[r].pc = "store" /\ req'[r].pc = "snapshot"]_vars

\* the record of a host carries its first report's time and a later report's
\* address and time, after the cleanup has deleted metric points of the host
C24_Witness ==
    /\ \E i \in DOMAIN agents :
          /\ agents[i].hostname = H1
          /\ agents[i].first_seen = Some(StartTime)
          /\ Val(agents[i].last_seen) > StartTime
          /\ agents[i].agent_ip = "10.0.0.2"
    /\ next_metric_id > Cardinality(metrics) + 1
    /\ cleanup.pc = "idle"

\* the alert evaluation of the report that request r has just finished handling
alerts_of_report(r) ==
    check_and_update_alerts(alerts, req[r].hostname, extract_key_metrics(req[r].payload), now)

\* C30: when the snapshot step of a report fails, the alert evaluation of that
\* report is still carried out: unless the alert store itself cannot be written,
\* the alert table after the request is the one that the threshold rules and the
\* agent_down resolution of the report's host produce.
C30_SnapshotFailureKeepsAlerts ==
    [][\A r \in Reqs :
          (/\ req[r].pc = "alerts" /\ req'[r].pc = "idle"
           /\ "snapshot" \in resp[r].logged
           /\ "alert_database" \notin resp'[r].logged)
          => /\ alerts' = alerts_of_report(r)
             /\ "alerts" \notin resp'[r].logged]_vars

\* when the snapshot step succeeded and the alert store can be written, the
\* alert evaluation of the report is carried out
AlertsEvaluatedAfterSnapshot ==
    [][\A r \in Reqs :
          (/\ req[r].pc = "alerts" /\ req'[r].pc = "idle"
           /\ "snapshot" \notin resp[r].logged
           /\ "alert_database" \notin resp'[r].logged)
          => /\ alerts' = alerts_of_report(r)
             /\ "alerts" \notin resp'[r].logged]_vars

\* ------------------------------------------------------------------------
\* Who resolves an agent_down alert
\* ------------------------------------------------------------------------
\* C31: an active agent_down alert of host h stops being active only in the
\* evaluation of a stored report of h; a scanner pass turns no active alert
\* into a resolved one, and the evaluation of a report of another host leaves
\* the agent_down row of h as it was.
C31_OnlyOwnReportResolvesAgentDown ==
    [][\A h \in {H1, H2} :
          IsActive(alerts, AgentDownKey(h))
          => /\ ~IsActive(alerts', AgentDownKey(h))
                  => Evaluating /\ req["r1"].hostname = h
             /\ ScanPass
                  => \A i \in DOMAIN alerts :
                        alerts[i].status = "active" => alerts'[i].status = "active"
             /\ (Evaluating /\ req["r1"].hostname # h)
                  => RowOf(alerts', AgentDownKey(h)) = RowOf(alerts, AgentDownKey(h))]_vars

\* the agent_down alert of h2 is still active after a scanner pass has ended and
\* after a report of h1 resolved the agent_down alert of h1 while the one of h2
\* was already active
C31_Witness ==
    /\ IsActive(alerts, AgentDownKey(H2))
    /\ HasRow(alerts, AgentDownKey(H1))
    /\ RowOf(alerts, AgentDownKey(H1)).status = "resolved"
    /\ Val(RowOf(alerts, AgentDownKey(H1)).resolved_unix)
          >= RowOf(alerts, AgentDownKey(H2)).first_triggered_unix
    /\ scan.pc = "sleep"
    /\ req["r1"].pc = "idle"

\* ------------------------------------------------------------------------
\* The two writers of an agent_down row
\* ------------------------------------------------------------------------
\* the agent_down rows of the alert table
AgentDownRows == {i \in DOMAIN alerts : alerts[i].alert_type = AGENT_DOWN}

\* C32: whatever way the force-resolve of an ingestion and the activation of a
\* scanner pass on the same agent_down key interleave, the row is never a
\* mixture of the two writes: it is active with no resolved time or resolved
\* with one, and every change of it is one complete write, either the resolve
\* (status and resolved time, by the ingestion) or the activation (status,
\* message, value, last-active time and cleared resolved time, by the scanner).
C32_AgentDownWritesSerialized ==
    /\ [](\A i \in AgentDownRows :
             \/ alerts[i].status = "active" /\ alerts[i].resolved_unix = Null
             \/ alerts[i].status = "resolved" /\ alerts[i].resolved_unix # Null)
    /\ [][\A i \in AgentDownRows :
             alerts'[i] # alerts[i]
             => \/ /\ Evaluating /\ alerts[i].hostname = req["r1"].hostname
                   /\ alerts[i].status = "active"
                   /\ alerts'[i] = [alerts[i] EXCEPT !.status = "resolved",
                                                     !.resolved_unix = Some(now)]
                \/ /\ ScanPass
                   /\ alerts'[i] = [alerts[i] EXCEPT !.status = "active",
                                                     !.message = alerts'[i].message,
                                                     !.current_value = alerts'[i].current_value,
                                                     !.last_active_unix = scan.now,
                                                     !.resolved_unix = Null]]_vars

\* both writers have written the agent_down row of h1: the scanner activated it
\* from a last-seen time it had read before the report that the collector then
\* stored and evaluated at the present time
C32_Witness ==
    /\ IsActive(alerts, AgentDownKey(H1))
    /\ \E i \in DOMAIN agents : agents[i].hostname = H1 /\ agents[i].last_seen = Some(now)
    /\ \E m \in metrics : m.hostname = H1 /\ m.timestamp_unix = now
    /\ scan.pc = "sleep"
    /\ req["r1"].pc = "idle"
    /\ resp["r1"].status = 200

\* C33: whenever a scanner pass writes an active agent_down alert of host h, the
\* last-seen time of h in storage at that moment is older than the
\* down-threshold.
C33_NoActivationFromStaleView ==
    [][ScanPass =>
         \A h \in {H1, H2} :
            (/\ IsActive(alerts', AgentDownKey(h))
             /\ \/ ~HasRow(alerts, AgentDownKey(h))
                \/ RowOf(alerts', AgentDownKey(h)) # RowOf(alerts, AgentDownKey(h)))
            => HostDown(h)]_vars

\* a scanner pass writes an active agent_down alert only for a host whose
\* last-seen time was older than the down-threshold when the pass read it
ActivationFollowsScannerView ==
    [][ScanPass =>
         \A h \in {H1, H2} :
            (/\ IsActive(alerts', AgentDownKey(h))
             /\ \/ ~HasRow(alerts, AgentDownKey(h))
                \/ RowOf(alerts', AgentDownKey(h)) # RowOf(alerts, AgentDownKey(h)))
            => \E i \in DOMAIN scan.all_agents :
                  /\ scan.all_agents[i].hostname = h
                  /\ scan.all_agents[i].last_seen # Null
                  /\ scan.now - Val(scan.all_agents[i].last_seen) > ALERT_AGENT_DOWN_SECONDS]_vars

\* ------------------------------------------------------------------------
\* The retention cleanup
\* ------------------------------------------------------------------------
\* C34: metric points leave the store only in a step of a running cleanup, at
\* most CLEANUP_BATCH_SIZE of them in one committed batch and each of them older
\* than the cutoff of the run; the run ends only when no point older than the
\* cutoff is left; no step of the cleanup changes the agent records or the
\* alert rows, while ingestion appends points and the scanner writes alerts.
C34_CleanupDeletesOnlyOldPointsInBatches ==
    [][/\ metrics \ metrics' # {}
            => /\ cleanup.pc = "batch" /\ cleanup'.pc = "batch"
               /\ \A m \in metrics \ metrics' : m.timestamp_unix < cleanup.cutoff_timestamp
               /\ Cardinality(metrics \ metrics') <= CLEANUP_BATCH_SIZE
               /\ metrics' \subseteq metrics
       /\ (cleanup.pc = "batch" /\ cleanup'.pc = "idle")
            => \A m \in metrics : m.timestamp_unix >= cleanup.cutoff_timestamp
       /\ (cleanup' # cleanup \/ metrics \ metrics' # {})
            => UNCHANGED <<agents, alerts>>]_vars

\* a run has ended after it deleted the points older than its cutoff; a point
\* stored after the cutoff, the agent record and an alert row are still there
C34_Witness ==
    /\ cleanup.pc = "idle"
    /\ next_metric_id = MaxReports + 1
    /\ Cardinality(metrics) = 1
    /\ \A m \in metrics : m.timestamp_unix > StartTime
    /\ agents # <<>>
    /\ alerts # <<>>

\* ------------------------------------------------------------------------
\* The keys that the evaluation of a report writes
\* ------------------------------------------------------------------------
\* the alert keys that check_and_update_alerts computes for a report p of host h
EvaluatedKeys(h, p) ==
    {generate_alert_key(h, CPU_HIGH, <<>>), generate_alert_key(h, MEM_HIGH, <<>>),
     generate_alert_key(h, AGENT_DOWN, <<>>)}
    \cup {generate_alert_key(h, DISK_HIGH, d.name) : d \in SeqRange(p.disk_usage)}
    \cup {generate_alert_key(h, NET_CHOKED, a.name) : a \in SeqRange(p.interfaces)}
    \cup UNION {{generate_alert_key(h, PING_FAIL, q.target),
                 generate_alert_key(h, PING_LATENCY_HIGH, q.target)} :
                    q \in SeqRange(p.ping_results)}

\* the disks, interfaces and probe targets that a report names for a rule type
SubTargets(p, alert_type) ==
    IF alert_type = DISK_HIGH THEN {d.name : d \in SeqRange(p.disk_usage)}
    ELSE IF alert_type = NET_CHOKED THEN {a.name : a \in SeqRange(p.interfaces)}
    ELSE {q.target : q \in SeqRange(p.ping_results)}

\* C35: the evaluation of a report changes only rows of the keys it evaluates,
\* and an active per-disk, per-interface or per-probe-target alert of the
\* reporting host whose sub-target the report does not name is left as it was.
C35_AbsentSubTargetLeftAlone ==
    [][Evaluating =>
         LET h == req["r1"].hostname
             p == req["r1"].payload
         IN  /\ \A i \in DOMAIN alerts :
                   alerts[i].alert_key \notin EvaluatedKeys(h, p) => alerts'[i] = alerts[i]
             /\ \A i \in DOMAIN alerts :
                   (/\ alerts[i].hostname = h
                    /\ alerts[i].status = "active"
                    /\ alerts[i].alert_type \in {DISK_HIGH, NET_CHOKED, PING_FAIL, PING_LATENCY_HIGH}
                    /\ alerts[i].specific_target \notin SubTargets(p, alerts[i].alert_type))
                   => alerts'[i] = alerts[i]]_vars

\* the evaluation of a report changes only rows of the keys it evaluates
OnlyEvaluatedKeysChange ==
    [][Evaluating =>
         \A i \in DOMAIN alerts :
            alerts[i].alert_key \notin EvaluatedKeys(req["r1"].hostname, req["r1"].payload)
            => alerts'[i] = alerts[i]]_vars

\* the (hostname, rule type, sub-target) triples that a report p of host h evaluates
EvaluatedTriples(h, p) ==
    {<<h, CPU_HIGH, <<>> >>, <<h, MEM_HIGH, <<>> >>, <<h, AGENT_DOWN, <<>> >>}
    \cup {<<h, DISK_HIGH, d.name>> : d \in SeqRange(p.disk_usage)}
    \cup {<<h, NET_CHOKED, a.name>> : a \in SeqRange(p.interfaces)}
    \cup UNION {{<<h, PING_FAIL, q.target>>, <<h, PING_LATENCY_HIGH, q.target>>} :
                   q \in SeqRange(p.ping_results)}

\* the triple that an alert row was written for
TripleOf(row) == <<row.hostname, row.alert_type, row.specific_target>>

\* C36: generate_alert_key is injective on (hostname, rule type, sub-target): a
\* triple that a report evaluates has the key of a stored row only if it is the
\* triple of that row, so the evaluation changes no row of another triple.
C36_AlertKeyInjective ==
    [][Evaluating =>
         LET triples == EvaluatedTriples(req["r1"].hostname, req["r1"].payload)
         IN  /\ \A t \in triples, i \in DOMAIN alerts :
                   generate_alert_key(t[1], t[2], t[3]) = alerts[i].alert_key
                   => t = TripleOf(alerts[i])
             /\ \A i \in DOMAIN alerts :
                   alerts'[i] # alerts[i] => TripleOf(alerts[i]) \in triples]_vars

\* ------------------------------------------------------------------------
\* Two ingestions of the same host at the same time
\* ------------------------------------------------------------------------
\* the metric point of host h that was committed last
LastMetricPoint(h) ==
    CHOOSE m \in metrics : m.hostname = h /\ \A x \in metrics : x.hostname = h => x.id <= m.id

\* C37: when no ingestion is in progress, the snapshot of a host carries the
\* last-seen time of the stored agent record and belongs to the metric point of
\* that host that was committed last.
C37_SnapshotIsLastCommittedReport ==
    (\A r \in Reqs : req[r].pc = "idle")
    => \A i \in DOMAIN agents :
          LET h == agents[i].hostname
          IN  h \in DOMAIN latest_agent_snapshot
              => /\ Some(latest_agent_snapshot[h].last_seen) = agents[i].last_seen
                 /\ latest_agent_snapshot[h].last_seen = LastMetricPoint(h).timestamp_unix

\* while no other request is being handled, a request thread leaves the
\* snapshot of the host with the last-seen time that it stored
SnapshotFollowsOwnCommit ==
    [][(req["r1"].pc = "snapshot" /\ req'["r1"].pc = "alerts")
         => \E i \in DOMAIN agents :
               /\ agents[i].hostname = req["r1"].hostname
               /\ agents[i].last_seen
                     = Some(latest_agent_snapshot'[req["r1"].hostname].last_seen)]_vars

\* C38: no step lowers the last-seen time of an agent record.
C38_LastSeenNeverDecreases ==
    [][\A i \in DOMAIN agents :
          Val(agents'[i].last_seen) >= Val(agents[i].last_seen)]_vars

\* ------------------------------------------------------------------------
\* The life cycle of an alert row
\* ------------------------------------------------------------------------
\* C39: every alert row is active with no resolved time, or resolved with a
\* resolved time that is not earlier than its first-triggered time, and a step
\* that re-activates a resolved row clears the resolved time and keeps the
\* first-triggered time.
C39_AlertRowLifecycle ==
    /\ [](\A i \in DOMAIN alerts :
             \/ alerts[i].status = "active" /\ alerts[i].resolved_unix = Null
             \/ /\ alerts[i].status = "resolved"
                /\ alerts[i].resolved_unix # Null
                /\ Val(alerts[i].resolved_unix) >= alerts[i].first_triggered_unix)
    /\ [][\A i \in DOMAIN alerts :
             (alerts[i].status = "resolved" /\ alerts'[i].status = "active")
             => /\ alerts'[i].resolved_unix = Null
                /\ alerts'[i].first_triggered_unix = alerts[i].first_triggered_unix]_vars

\* the status of a row and its resolved time agree, and a re-activated row
\* keeps its first-triggered time
StatusAgreesWithResolvedTime ==
    /\ [](\A i \in DOMAIN alerts :
             alerts[i].status = (IF alerts[i].resolved_unix = Null THEN "active" ELSE "resolved"))
    /\ [][\A i \in DOMAIN alerts :
             alerts'[i].first_triggered_unix = alerts[i].first_triggered_unix]_vars
====
